---------------------------- MODULE Spec2Model ----------------------------
(***************************************************************************)
(* Text layout and viewport engine of nodecode-terminal-kit:               *)
(*   layout/text.rs        word wrap, row lookup, cursor <-> byte offset   *)
(*   components/list.rs    ListState selection, viewport offset, hit test  *)
(*   primitives/scrollbar.rs  scrollbar thumb geometry, thumb -> scroll    *)
(*   primitives/geom.rs    contains, inner_1px                             *)
(*   components/dialog_shell.rs  inline-dialog flag, guards, dialog width  *)
(*   primitives/scrollbar.rs  drag helpers on the full u16 / u32 range     *)
(*   components/text_input.rs  TextInput's visual cursor movement          *)
(*   components/dropdown.rs  FuzzyDropdown                                 *)
(*   wizard/framework.rs   WizardFlow navigation                           *)
(*   layout/picker_kit/mod.rs  PickerState, picker_update_state            *)
(*   components/lines_viewport.rs  render_lines_slice                      *)
(* and the event loop of nodecode-terminal-kit-runtime (program.rs).       *)
(*                                                                         *)
(* A string is a sequence of Unicode code points; byte offsets are offsets *)
(* into its UTF-8 encoding, computed from each code point's encoded length.*)
(***************************************************************************)
EXTENDS Integers, Sequences, FiniteSets, TLC

VARIABLES
    \* wrapped_row_ranges: arguments, locals of the scan loop, control point
    text, content_width, rows, start, width_cols, last_break, idx, wpc,
    \* find_visual_row: argument and result
    cursor, row_idx,
    \* cursor_to_byte_offset / byte_offset_to_cursor: arguments and results
    lines, cur_in, offset, cur_out, cpc,
    \* ListState fields and the record of the last method call on it
    selected, viewport_offset, last,
    \* compute_thumb: arguments, result, control point; the scroll offset
    \* mapped back from the thumb and the thumb computed at that offset
    track_h, visible_rows, total_rows, scroll, thumb, tpc, scroll1, thumb1,
    \* INLINE_DIALOG_MODE, the live InlineDialogGuards (id -> prev), the
    \* number of guards created, the last compute_centered call
    inline_mode, guards, created, dialog,
    \* Program::run: control point, the pending queue, the messages in the
    \* order they were produced / passed to update, the messages that stem
    \* from init, call counts, the last key read, config.exit_keys
    ppc, pending, produced, applied, init_msgs, init_calls, view_calls, key,
    exit_keys,
    \* index_at_content / index_at: rectangle, item count, pointer cell,
    \* result, control point (the ListState is selected, viewport_offset)
    area, hit_total, mouse, hit, hpc

wrapVars   == <<text, content_width, rows, start, width_cols, last_break, idx,
                wpc, cursor, row_idx>>
cursorVars == <<lines, cur_in, offset, cur_out, cpc>>
listVars   == <<selected, viewport_offset, last>>
thumbVars  == <<track_h, visible_rows, total_rows, scroll, thumb, tpc,
                scroll1, thumb1>>
guardVars  == <<inline_mode, guards, created, dialog>>
progVars   == <<ppc, pending, produced, applied, init_msgs, init_calls,
                view_calls, key, exit_keys>>
hitVars    == <<area, hit_total, mouse, hit, hpc>>
\* ---- state of the further components ----
\* the last call of a scrollbar drag helper: function, arguments, result
VARIABLES drag_call
\* TextInput: text_cache, the inner cursor, the last call
VARIABLES ti_text, ti_cur, ti_call
\* FuzzyDropdown: items.len(), the filtered indices, filter_text, the list state, the last call
VARIABLES dd_items, dd_filtered, dd_filter, dd_selected, dd_offset, dd_last
\* WizardFlow: steps.len(), current_step_idx, item, the last call
VARIABLES wz_steps, wz_idx, wz_item, wz_last
\* PickerState and the last call on it (with the list state before the call)
VARIABLES picker, pk_last
\* render_lines_slice: its arguments, what it drew (or the panic), its position
VARIABLES rl_in, rl_out, rl_pc
dragVars == <<drag_call>>
inputVars == <<ti_text, ti_cur, ti_call>>
fuzzyVars == <<dd_items, dd_filtered, dd_filter, dd_selected, dd_offset,
    dd_last>>
wizardVars == <<wz_steps, wz_idx, wz_item, wz_last>>
pickerVars == <<picker, pk_last>>
linesVars == <<rl_in, rl_out, rl_pc>>
extVars == <<dragVars, inputVars, fuzzyVars, wizardVars, pickerVars,
    linesVars>>
coreVars == <<wrapVars, cursorVars, listVars, thumbVars, guardVars,
    progVars, hitVars>>
dragOthers == <<coreVars, inputVars, fuzzyVars, wizardVars, pickerVars,
    linesVars>>
inputOthers == <<coreVars, dragVars, fuzzyVars, wizardVars, pickerVars,
    linesVars>>
fuzzyOthers == <<coreVars, dragVars, inputVars, wizardVars, pickerVars,
    linesVars>>
wizardOthers == <<coreVars, dragVars, inputVars, fuzzyVars, pickerVars,
    linesVars>>
pickerOthers == <<coreVars, dragVars, inputVars, fuzzyVars, wizardVars,
    linesVars>>
linesOthers == <<coreVars, dragVars, inputVars, fuzzyVars, wizardVars,
    pickerVars>>
\* ---- end of the further components' state ----
vars       == <<coreVars, extVars>>

(***************************************************************************)
(* Bounds of the model.                                                    *)
(***************************************************************************)
MaxLen      == 4    \* longest generated text, in characters
MaxWidth    == 3    \* largest generated content_width
MaxFlat     == 4    \* longest generated buffer (lines joined by '\n'), in characters
MaxItems    == 6    \* largest generated list length, index and offset
MaxHeight   == 5    \* largest visible_height
MaxTrack    == 10   \* largest track_h
MaxVisible  == 5    \* largest visible_rows
MaxTotal    == 20   \* largest total_rows
MaxScroll   == 16   \* largest scroll
MaxGuards   == 3    \* InlineDialogGuards created in one run
MaxParent   == 4    \* largest parent width given to compute_centered
MaxMsgs     == 4    \* messages produced in one run of the program
MaxBatch    == 2    \* longest Command::Batch
MaxViews    == 3    \* draws in one run of the program
MaxRectH    == 4    \* tallest rectangle given to index_at / index_at_content
MaxRow      == 5    \* largest pointer row
MaxHit      == 3    \* largest selected and viewport_offset given to index_at
MaxInput    == 3    \* longest generated TextInput text, in characters
MaxDrag     == 3    \* largest small row, height or offset given to the drag helpers
MaxDropItems == 3   \* most items of a generated dropdown
MaxLimit    == 3    \* largest generated empty_limit / filtered_limit
MaxSteps    == 4    \* most steps of a generated wizard
MaxPick     == 3    \* most items of a generated picker
MaxHistory  == 2    \* most history_lines and most tail_lines given to render_lines_slice
MaxViewH    == 3    \* tallest area given to render_lines_slice
MaxStart    == 6    \* largest start offset given to render_lines_slice

(***************************************************************************)
(* Characters.  The code points the generated texts are drawn from cover   *)
(* every class the code distinguishes: a plain letter, a space, a newline, *)
(* a path delimiter, a zero-width combining mark (2 bytes) and a wide CJK  *)
(* ideograph (3 bytes, 2 columns).                                         *)
(***************************************************************************)
NL    == 10      \* '\n'
SLASH == 47      \* '/'
AT    == 64      \* '@'

\* 'a'; ' '; '\n'; '/'; U+0301 combining acute (2 bytes, 0 columns);
\* U+4E16 (3 bytes, 2 columns)
WrapAlphabet == {97, 32, NL, SLASH, 769, 19990}
\* 'a'; U+0301; U+4E16; '\n' separates the lines of a generated buffer
LineAlphabet == {97, 769, 19990, NL}

\* char::len_utf8
len_utf8(ch) ==
    IF ch < 128 THEN 1 ELSE IF ch < 2048 THEN 2 ELSE IF ch < 65536 THEN 3 ELSE 4

\* char::is_whitespace (the Unicode White_Space property)
is_whitespace(ch) ==
    \/ ch \in 9..13
    \/ ch \in {32, 133, 160, 5760, 8232, 8233, 8239, 8287, 12288}
    \/ ch \in 8192..8202

\* UnicodeWidthChar::width(ch).unwrap_or(0): control characters have no width
\* (None), combining marks have width 0, East Asian wide characters width 2.
unicode_width(ch) ==
    IF ch < 32 \/ ch \in 127..159 THEN 0
    ELSE IF ch \in 768..879 THEN 0
    ELSE IF ch \in 19968..40959 \/ ch = 12288 THEN 2
    ELSE 1

Max(a, b) == IF a >= b THEN a ELSE b
Min(a, b) == IF a <= b THEN a ELSE b
\* usize::saturating_sub
saturating_sub(a, b) == IF a >= b THEN a - b ELSE 0

\* str::len: the length of the UTF-8 encoding
RECURSIVE str_len(_)
str_len(s) == IF s = <<>> THEN 0 ELSE len_utf8(Head(s)) + str_len(Tail(s))

\* Byte offset at which the k-th character (1-based) of s starts.
byte_of(s, k) == str_len(SubSeq(s, 1, k - 1))

\* The character boundaries of s: every byte offset a char starts at, and len.
boundaries(s) == {byte_of(s, k) : k \in 1..(Len(s) + 1)}

\* text[idx..].chars().next(): the character starting at byte offset idx.
char_at(s, i) == s[CHOOSE k \in 1..Len(s) : byte_of(s, k) = i]

\* &text[a..b] as a sequence of characters, for character boundaries a <= b.
slice(s, a, b) ==
    LET ks == {k \in 1..Len(s) : byte_of(s, k) >= a /\ byte_of(s, k) < b}
    IN  IF ks = {} THEN <<>>
        ELSE SubSeq(s, CHOOSE k \in ks : \A j \in ks : k <= j,
                       CHOOSE k \in ks : \A j \in ks : k >= j)

(***************************************************************************)
(* layout/text.rs: wrapped_row_ranges.                                     *)
(* One iteration of the `while idx < len` loop on the loop's locals.       *)
(***************************************************************************)
\* Variant of wrap_newline: the next row starts at the newline, not after it.
wrap_newline_kept(st, i, ch_len) ==
    [rows       |-> Append(st.rows, <<st.start, i>>),
     start      |-> i,
     width_cols |-> 0,
     last_break |-> i + ch_len,
     idx        |-> i + ch_len]

wrap_newline(st, i, ch_len) ==
    [rows       |-> Append(st.rows, <<st.start, i>>),
     start      |-> i + ch_len,
     width_cols |-> 0,
     last_break |-> i + ch_len,
     idx        |-> i + ch_len]

\* Variant of wrap_break: the next row always starts at the overflowing
\* character, also when the row was ended at an earlier break candidate.
wrap_break_restart(st, i) ==
    LET wrap_pos == IF st.last_break > st.start THEN st.last_break ELSE i
    IN  [rows       |-> Append(st.rows, <<st.start, wrap_pos>>),
         start      |-> i,
         width_cols |-> 0,
         last_break |-> st.last_break,
         idx        |-> i]

wrap_break(st, i) ==
    LET wrap_pos == IF st.last_break > st.start THEN st.last_break ELSE i
    IN  [rows       |-> Append(st.rows, <<st.start, wrap_pos>>),
         start      |-> wrap_pos,
         width_cols |-> 0,
         last_break |-> st.last_break,
         idx        |-> i]

\* Variant of wrap_consume: whitespace is not a break candidate.
wrap_consume_no_space(st, i, ch, ch_len, ch_w) ==
    [rows       |-> st.rows,
     start      |-> st.start,
     width_cols |-> st.width_cols + ch_w,
     last_break |-> IF ch = AT \/ ch = SLASH
                    THEN i + ch_len ELSE st.last_break,
     idx        |-> i + ch_len]

wrap_consume(st, i, ch, ch_len, ch_w) ==
    [rows       |-> st.rows,
     start      |-> st.start,
     width_cols |-> st.width_cols + ch_w,
     last_break |-> IF is_whitespace(ch) \/ ch = AT \/ ch = SLASH
                    THEN i + ch_len ELSE st.last_break,
     idx        |-> i + ch_len]

\* Variant of wrap_step: a row is ended as soon as the character does not fit,
\* also when the row is still empty.
wrap_step_unguarded(s, w, st) ==
    LET width  == Max(w, 1)
        ch     == char_at(s, st.idx)
        ch_len == len_utf8(ch)
        ch_w   == Max(unicode_width(ch), 1)
    IN  IF ch = NL THEN wrap_newline(st, st.idx, ch_len)
        ELSE IF st.width_cols + ch_w > width
             THEN wrap_break(st, st.idx)
             ELSE wrap_consume(st, st.idx, ch, ch_len, ch_w)

wrap_step(s, w, st) ==
    LET width  == Max(w, 1)
        ch     == char_at(s, st.idx)
        ch_len == len_utf8(ch)
        ch_w   == Max(unicode_width(ch), 1)
    IN  IF ch = NL THEN wrap_newline(st, st.idx, ch_len)
        ELSE IF st.width_cols > 0 /\ st.width_cols + ch_w > width
             THEN wrap_break(st, st.idx)
             ELSE wrap_consume(st, st.idx, ch, ch_len, ch_w)

wrap_init ==
    [rows |-> <<>>, start |-> 0, width_cols |-> 0, last_break |-> 0, idx |-> 0]

RECURSIVE wrap_run(_, _, _)
wrap_run(s, w, st) ==
    IF st.idx < str_len(s) THEN wrap_run(s, w, wrap_step(s, w, st))
    ELSE Append(st.rows, <<st.start, str_len(s)>>)

wrapped_row_ranges(s, w) == wrap_run(s, w, wrap_init)

\* The display width of a slice as the width function reports it
\* (UnicodeWidthChar::width, 0 where it reports none).
RECURSIVE display_width(_)
display_width(s) ==
    IF s = <<>> THEN 0 ELSE unicode_width(Head(s)) + display_width(Tail(s))

\* visual_column: summed display width, each character counted at least 1.
RECURSIVE visual_column(_)
visual_column(s) ==
    IF s = <<>> THEN 0
    ELSE Max(unicode_width(Head(s)), 1) + visual_column(Tail(s))

(***************************************************************************)
(* layout/text.rs: find_visual_row.                                        *)
(***************************************************************************)
RECURSIVE find_row_loop(_, _, _, _)
find_row_loop(ranges, c, i, current_idx) ==
    IF i > Len(ranges) THEN current_idx
    ELSE IF c < ranges[i][1] THEN current_idx
    ELSE find_row_loop(ranges, c, i + 1, i - 1)

\* Variant of find_visual_row: the scan stops at `cursor <= start`, so an
\* offset on a row's start is given to the row before it.
find_visual_row_strict(ranges, c) ==
    LET before == {i \in 1..Len(ranges) : ranges[i][1] < c}
    IN  IF before = {} THEN 0
        ELSE (CHOOSE i \in before : \A j \in before : i >= j) - 1

find_visual_row(ranges, c) ==
    IF ranges = <<>> THEN 0
    ELSE Min(find_row_loop(ranges, c, 1, 0), saturating_sub(Len(ranges), 1))

(***************************************************************************)
(* layout/text.rs: cursor_to_byte_offset and byte_offset_to_cursor.        *)
(* A cursor is <<row, col_chars>>, both 0-based as in the code; the line   *)
(* with index row is ls[row + 1].                                          *)
(***************************************************************************)
\* The inner loop over line.char_indices(): the byte index of the character
\* number col_chars, or line.len() when the line has no such character.
\* Variant of col_to_byte: the column is taken as a byte count.
col_to_byte_bytes(line, col_chars) == Min(col_chars, str_len(line))

col_to_byte(line, col_chars) ==
    IF col_chars < Len(line) THEN byte_of(line, col_chars + 1)
    ELSE str_len(line)

RECURSIVE c2b_loop(_, _, _, _)
c2b_loop(ls, i, c, off) ==
    IF i >= Len(ls) THEN off
    ELSE IF i < c[1] THEN c2b_loop(ls, i + 1, c, off + str_len(ls[i + 1]) + 1)
    ELSE off + col_to_byte(ls[i + 1], c[2])

cursor_to_byte_offset(ls, c) == c2b_loop(ls, 0, c, 0)

\* The inner loop over line.chars(): the number of characters whose encoding
\* ends at or before `remaining`.
RECURSIVE count_chars(_, _, _, _, _)
count_chars(line, k, consumed, chars, remaining) ==
    IF k > Len(line) THEN chars
    ELSE LET len == len_utf8(line[k])
         IN  IF consumed + len > remaining THEN chars
             ELSE IF consumed + len > remaining THEN chars
             ELSE count_chars(line, k + 1, consumed + len, chars + 1, remaining)

RECURSIVE b2c_loop(_, _, _)
b2c_loop(ls, i, remaining) ==
    IF i >= Len(ls)
    THEN LET last_row == saturating_sub(Len(ls), 1)
         IN  <<last_row, IF last_row < Len(ls) THEN Len(ls[last_row + 1]) ELSE 0>>
    ELSE IF remaining <= str_len(ls[i + 1])
         THEN <<i, count_chars(ls[i + 1], 1, 0, 0, remaining)>>
         ELSE b2c_loop(ls, i + 1, saturating_sub(remaining, str_len(ls[i + 1]) + 1))

byte_offset_to_cursor(ls, off) == b2c_loop(ls, 0, off)

(***************************************************************************)
(* components/list.rs: selection helpers and the viewport offset rule.     *)
(***************************************************************************)
select_next(sel, len) == IF len = 0 THEN 0 ELSE (sel + 1) % len

select_prev(sel, len) ==
    IF len = 0 THEN 0 ELSE IF sel = 0 THEN len - 1 ELSE sel - 1

\* ListState::scroll_lines: (cur + delta).clamp(0, len - 1), 0 for len == 0
scroll_lines(sel, delta, len) ==
    IF len = 0 THEN 0 ELSE Max(0, Min(sel + delta, len - 1))

\* Variant of the offset rule: below the window the offset is one too small,
\* leaving the selection just past the last visible row.
calculate_viewport_offset_short(sel, visible_height, current_offset) ==
    LET vh == Max(visible_height, 1)
    IN  IF sel < current_offset THEN sel
        ELSE IF sel >= current_offset + vh THEN saturating_sub(sel, vh)
        ELSE current_offset

\* Variant of the offset rule: plain clamping, the selection is brought to
\* the top row in both directions.
calculate_viewport_offset_top(sel, visible_height, current_offset) ==
    LET vh == Max(visible_height, 1)
    IN  IF sel < current_offset THEN sel
        ELSE IF sel >= current_offset + vh THEN sel
        ELSE current_offset

calculate_viewport_offset_internal(sel, visible_height, current_offset) ==
    LET vh == Max(visible_height, 1)
    IN  IF sel < current_offset THEN sel
        ELSE IF sel >= current_offset + vh THEN saturating_sub(sel, vh - 1)
        ELSE current_offset

(***************************************************************************)
(* primitives/geom.rs and the hit test of components/list.rs.  Coordinates *)
(* are u16; at the bounds of this model no sum reaches 2^16 except the    *)
(* saturating ones, which are written out.                                 *)
(***************************************************************************)
Rect(x, y, width, height) ==
    [x |-> x, y |-> y, width |-> width, height |-> height]

contains(r, col, row) ==
    /\ col >= r.x /\ col < r.x + r.width
    /\ row >= r.y /\ row < r.y + r.height

inner_1px(r) ==
    Rect(Min(r.x + 1, 65535), Min(r.y + 1, 65535),
         saturating_sub(r.width, 2), saturating_sub(r.height, 2))

\* Option<usize>
None    == <<>>
Some(i) == <<i>>

\* Variant of index_at_content: the index is not limited to total - 1.
index_at_content_unclamped(content_area, sel, off, total, col, row) ==
    IF total = 0 THEN None
    ELSE IF ~contains(content_area, col, row) THEN None
    ELSE LET hovered_row == saturating_sub(row, content_area.y)
             visible_h   == content_area.height
         IN  IF visible_h = 0 THEN None
             ELSE Some(calculate_viewport_offset_internal(sel, visible_h, off)
                          + hovered_row)

index_at_content(content_area, sel, off, total, col, row) ==
    IF total = 0 THEN None
    ELSE IF ~contains(content_area, col, row) THEN None
    ELSE LET hovered_row == saturating_sub(row, content_area.y)
             visible_h   == content_area.height
         IN  IF visible_h = 0 THEN None
             ELSE LET offset_ == calculate_viewport_offset_internal(
                                     sel, visible_h, off)
                  IN  Some(Min(offset_ + hovered_row,
                               saturating_sub(total, 1)))

index_at(list_area, sel, off, total, col, row) ==
    index_at_content(inner_1px(list_area), sel, off, total, col, row)

(***************************************************************************)
(* primitives/scrollbar.rs: compute_thumb.  track_h and visible_rows are   *)
(* u16, total_rows and scroll are u32; `as u16` keeps the low 16 bits.  At *)
(* the bounds of this model every u32 product stays far below 2^32.        *)
(***************************************************************************)
\* Variant of compute_thumb: the thumb top is interpolated over the whole
\* track, not over the room left beside the thumb.
compute_thumb_full_track(th, vis, total, sc) ==
    LET max_scroll    == saturating_sub(total, vis)
        thumb_h       == IF total = 0 THEN 1
                         ELSE Max((th * vis) \div total, 1) % 65536
        thumb_top     == IF max_scroll = 0 THEN 0
                         ELSE ((Min(sc, max_scroll) * th) \div max_scroll) % 65536
    IN  <<thumb_h, thumb_top, max_scroll>>

\* Variant of compute_thumb: the thumb height is not floored at 1.
compute_thumb_no_floor(th, vis, total, sc) ==
    LET max_scroll    == saturating_sub(total, vis)
        thumb_h       == IF total = 0 THEN 1
                         ELSE ((th * vis) \div total) % 65536
        max_thumb_top == saturating_sub(th, thumb_h)
        thumb_top     == IF max_scroll = 0 THEN 0
                         ELSE ((Min(sc, max_scroll) * max_thumb_top)
                               \div max_scroll) % 65536
    IN  <<thumb_h, thumb_top, max_scroll>>

compute_thumb(th, vis, total, sc) ==
    LET max_scroll    == saturating_sub(total, vis)
        thumb_h       == IF total = 0 THEN 1
                         ELSE Max((th * vis) \div total, 1) % 65536
        max_thumb_top == saturating_sub(th, thumb_h)
        thumb_top     == IF max_scroll = 0 THEN 0
                         ELSE ((Min(sc, max_scroll) * max_thumb_top)
                               \div max_scroll) % 65536
    IN  <<thumb_h, thumb_top, max_scroll>>

\* primitives/scrollbar.rs: map_thumb_to_scroll_u32 (thumb row -> scroll),
\* for arguments whose product stays below 2^31.
map_thumb_to_scroll_u32(thumb_pos, max_thumb_top, max_scroll) ==
    IF max_thumb_top = 0 \/ max_scroll = 0 THEN 0
    ELSE (thumb_pos * max_scroll) \div max_thumb_top

(***************************************************************************)
(* primitives/scrollbar.rs: the drag helpers on the full u16 / u32 range.  *)
(* A u32 is written as its two 16-bit halves <<hi, lo>>, so that products   *)
(* up to and beyond 2^32 can be computed.  The multiplication in           *)
(* map_thumb_to_scroll_u32 is a plain u32 `*`: when the product does not   *)
(* fit, a build with overflow checks panics and one without keeps the low  *)
(* 32 bits.                                                                *)
(***************************************************************************)
u32(hi, lo) == <<hi, lo>>
u32_le(a, b) == a[1] < b[1] \/ (a[1] = b[1] /\ a[2] <= b[2])

\* The 32-bit product of two u16 values.
mul_u16(a, b) ==
    LET x == (a \div 256) * b
        y == (a % 256) * b
        t == (x % 256) * 256 + y
    IN  u32((x \div 256) + (t \div 65536), t % 65536)

\* (a as u32) * b for a u16 a and a u32 b: does the product reach 2^32?
mul_overflows(a, b) ==
    mul_u16(a, b[1])[1] > 0 \/ mul_u16(a, b[2])[1] + mul_u16(a, b[1])[2] >= 65536

\* (a as u32).wrapping_mul(b): the low 32 bits of the product.
wrapping_mul(a, b) ==
    u32((mul_u16(a, b[2])[1] + mul_u16(a, b[1])[2]) % 65536, mul_u16(a, b[2])[2])

\* n / (d as u32) for a u32 n and a u16 d >= 1.
div_u32(n, d) ==
    LET q1 == n[1] \div d
        r1 == n[1] % d
        n2 == r1 * 256 + (n[2] \div 256)
        q2 == n2 \div d
        r2 == n2 % d
        n3 == r2 * 256 + (n[2] % 256)
    IN  u32(q1, q2 * 256 + (n3 \div d))

Panic == <<"panic">>

\* <<within_thumb, grab_offset>>
start_drag(my, ttop, th) ==
    LET within_thumb == my >= ttop /\ my < Min(ttop + th, 65535)
    IN  <<within_thumb,
          IF within_thumb THEN saturating_sub(my, ttop) ELSE th \div 2>>

\* <<desired, max_thumb_top>>
desired_from_click(my, top, height, grab_offset, th) ==
    LET max_thumb_top == saturating_sub(height, th)
    IN  <<Min(saturating_sub(saturating_sub(my, top), grab_offset),
              max_thumb_top),
          max_thumb_top>>

\* The results the builds can give: a u32, or a panic on overflow.
map_thumb_to_scroll_u32_results(thumb_pos, max_thumb_top, max_scroll) ==
    IF max_thumb_top = 0 \/ max_scroll = u32(0, 0) THEN {u32(0, 0)}
    ELSE {div_u32(wrapping_mul(thumb_pos, max_scroll), max_thumb_top)}
            \cup (IF mul_overflows(thumb_pos, max_scroll) THEN {Panic} ELSE {})

\* Two u16 factors: the u32 product always fits; `as u16` keeps the low half.
map_thumb_to_scroll_u16(thumb_pos, max_thumb_top, max_scroll) ==
    IF max_thumb_top = 0 \/ max_scroll = 0 THEN 0
    ELSE LET q == div_u32(mul_u16(thumb_pos, max_scroll), max_thumb_top)
         IN  q[2]

(***************************************************************************)
(* components/dialog_shell.rs: the dialog's horizontal extent.  width_pct  *)
(* is an f32; the model writes it in quarters (1..4 for 0.25..1.0), whose  *)
(* products with a u16 are exact in f32, and `as u16` truncates.  The      *)
(* inline override touches only width_pct and max_width, so the vertical   *)
(* extent is left out.                                                     *)
(***************************************************************************)
center_position(container_size, item_size) ==
    saturating_sub(container_size, item_size) \div 2

\* u16::clamp
clamp(v, lo, hi) == IF v < lo THEN lo ELSE IF v > hi THEN hi ELSE v

\* <<x, width>> of the dialog area
calculate_dialog_area_clamped(parent_x, parent_w, width_q, min_width, max_width) ==
    LET dialog_width == clamp((parent_w * width_q) \div 4, min_width, max_width)
        dialog_x     == center_position(parent_w, dialog_width)
    IN  <<parent_x + dialog_x, dialog_width>>

\* <<width_q, max_width>> after the override
apply_inline_overrides(flag, width_q, max_width, parent_w) ==
    IF flag THEN <<4, parent_w>> ELSE <<width_q, max_width>>

compute_centered(flag, parent_x, parent_w, width_q, max_width) ==
    LET opts == apply_inline_overrides(flag, width_q, max_width, parent_w)
    IN  calculate_dialog_area_clamped(parent_x, parent_w, opts[1], 0, opts[2])

\* InlineDialogGuard::enable: INLINE_DIALOG_MODE.swap(true), the old value
\* kept in the guard.
InlineDialogGuard_enable(flag) == [prev |-> flag, flag |-> TRUE]

\* Drop for InlineDialogGuard: INLINE_DIALOG_MODE.store(self.prev); the
\* flag's new value.
InlineDialogGuard_drop(prev) == prev

NoDialog == [called |-> FALSE, alive |-> 0, parent_x |-> 0, parent_w |-> 0,
             width_q |-> 4, max_width |-> 0, area |-> <<0, 0>>]

(***************************************************************************)
(* nodecode-terminal-kit-runtime: program.rs, command.rs, config.rs.  A    *)
(* message is known by its number in the order the command closures       *)
(* returned the messages; a command is its kind and the messages its       *)
(* closures return, in the order the command holds them.                   *)
(***************************************************************************)
CommandNone       == [kind |-> "None", msgs |-> <<>>]
CommandOne(m)     == [kind |-> "One", msgs |-> <<m>>]
CommandBatch(ms)  == [kind |-> "Batch", msgs |-> ms]

\* Variant of enqueue_command: a batch is placed ahead of the pending
\* messages.
enqueue_command_front(command, q) ==
    IF command.kind = "None" THEN q
    ELSE IF command.kind = "One" THEN Append(q, command.msgs[1])
    ELSE command.msgs \o q

enqueue_command(command, q) ==
    IF command.kind = "None" THEN q
    ELSE IF command.kind = "One" THEN Append(q, command.msgs[1])
    ELSE q \o command.msgs

ExitKeysDefault == [esc |-> TRUE, q |-> TRUE, ctrl_c |-> TRUE]

\* Variant of should_exit_key: 'q' exits whatever the modifiers.
should_exit_key_any_q(k, ek) ==
    IF k.code = "Esc" THEN ek.esc
    ELSE IF k.code = "q" THEN ek.q
    ELSE IF k.code = "c" /\ "CONTROL" \in k.modifiers THEN ek.ctrl_c
    ELSE FALSE

should_exit_key(k, ek) ==
    IF k.code = "Esc" THEN ek.esc
    ELSE IF k.code = "q" /\ k.modifiers = {} THEN ek.q
    ELSE IF k.code = "c" /\ "CONTROL" \in k.modifiers THEN ek.ctrl_c
    ELSE FALSE

\* Variant of after_init: the loop is entered without draining the queue.
after_init_draw == "draw"

\* Where Program::run goes after enqueueing the init command: drain_pending.
after_init == "drain"

(***************************************************************************)
(* Inputs.                                                                 *)
(***************************************************************************)
Strings(alphabet, n) == UNION {[1..k -> alphabet] : k \in 0..n}

HelloWorld == <<104, 101, 108, 108, 111, 32, 119, 111, 114, 108, 100>>
AbNlCd     == <<97, 98, NL, 99, 100>>

\* <<text, content_width>>: every short text at every small width, and the
\* two documented scenarios.
WrapInputs ==
    (Strings(WrapAlphabet, MaxLen) \X (0..MaxWidth))
        \cup {<<HelloWorld, 5>>, <<AbNlCd, 10>>}

\* The lines of a buffer: the flattened text split at each '\n'.
RECURSIVE split_lines(_, _)
split_lines(flat, cur) ==
    IF flat = <<>> THEN <<cur>>
    ELSE IF Head(flat) = NL THEN <<cur>> \o split_lines(Tail(flat), <<>>)
    ELSE split_lines(Tail(flat), Append(cur, Head(flat)))

\* Every buffer of at most MaxFlat characters, and the empty line list.
LineLists ==
    {split_lines(f, <<>>) : f \in Strings(LineAlphabet, MaxFlat)} \cup {<<>>}

\* The lines joined by single newlines (TextInput's flattened text).
RECURSIVE joined(_)
joined(ls) ==
    IF ls = <<>> THEN <<>>
    ELSE IF Len(ls) = 1 THEN ls[1]
    ELSE ls[1] \o <<NL>> \o joined(Tail(ls))

\* The commands a model may return when n messages have been produced:
\* none, one, or a batch of 0..MaxBatch closures.
Commands(n) ==
    {CommandNone}
        \cup {CommandOne(n + 1) : k \in {j \in {1} : n + j <= MaxMsgs}}
        \cup {CommandBatch([i \in 1..k |-> n + i]) :
                 k \in {j \in 0..MaxBatch : n + j <= MaxMsgs}}

\* Key events: Esc, 'q', 'c', 'x' with every combination of Shift and
\* Control.
Keys == [code : {"Esc", "q", "c", "x"}, modifiers : SUBSET {"SHIFT", "CONTROL"}]
NoKey == [code |-> "none", modifiers |-> {}]

\* config.exit_keys: the three fields are public.
ExitKeysSets == [esc : BOOLEAN, q : BOOLEAN, ctrl_c : BOOLEAN]

Range(f) == {f[i] : i \in DOMAIN f}

\* u16 arguments of the drag helpers: the small values and the largest one.
DragU16 == (0..MaxDrag) \cup {65535}
\* u32 max_scroll values: small ones, around 2^16, 2 * 10^9 and 2^32 - 1.
DragU32 ==
    {u32(0, n) : n \in 0..MaxDrag}
        \cup {u32(0, 65535), u32(1, 0), u32(1, 2), u32(30517, 37888),
              u32(65535, 65535)}

(***************************************************************************)
(* components/text_input.rs.  A TextInput is its text (text_cache) and the *)
(* cursor of the inner TextArea, <<row, col_chars>> over the text's lines. *)
(***************************************************************************)
\* self.inner.lines(): the text split at '\n' (one empty line for "").
ti_lines(t) == split_lines(t, <<>>)

\* TextArea::move_cursor(CursorMove::Jump(row, col)): the position, limited
\* to the last line and to the end of the line.
jump(ls, rc) ==
    LET row == Min(rc[1], Len(ls) - 1)
    IN  <<row, Min(rc[2], Len(ls[row + 1]))>>

\* TextInput::with_text / cursor_end: CursorMove::Bottom, CursorMove::End.
cursor_end(t) ==
    LET ls == ti_lines(t) IN <<Len(ls) - 1, Len(ls[Len(ls)])>>

\* TextInput::cursor
ti_cursor(t, cur) == cursor_to_byte_offset(ti_lines(t), cur)

set_cursor_byte_offset(t, off) ==
    jump(ti_lines(t), byte_offset_to_cursor(ti_lines(t), off))

\* <<row, col>>
cursor_visual_position(t, cur, w) ==
    LET c      == Min(ti_cursor(t, cur), str_len(t))
        ranges == wrapped_row_ranges(t, w)
    IN  IF ranges = <<>> THEN <<0, 0>>
        ELSE LET r       == find_visual_row(ranges, c)
                 clamped == Max(Min(c, ranges[r + 1][2]), ranges[r + 1][1])
             IN  <<r % 65536,
                   visual_column(slice(t, ranges[r + 1][1], clamped)) % 65536>>

\* The loop over slice.char_indices() of cursor_move_visual_vertical:
\* <<acc, target_offset>> when it ends; pos is the offset of character k.
RECURSIVE goal_scan(_, _, _, _, _, _)
goal_scan(sl, k, pos, acc, target_offset, goal_col) ==
    IF k > Len(sl) THEN <<acc, target_offset>>
    ELSE LET w == Max(unicode_width(sl[k]), 1)
         IN  IF acc + w > goal_col THEN <<acc, target_offset>>
             ELSE goal_scan(sl, k + 1, pos + len_utf8(sl[k]), acc + w,
                            pos + len_utf8(sl[k]), goal_col)

\* [ret, cur]: the returned flag and the cursor afterwards
cursor_move_visual_vertical(t, cur, up, w) ==
    IF w = 0 \/ t = <<>> THEN [ret |-> FALSE, cur |-> cur]
    ELSE LET ranges == wrapped_row_ranges(t, w)
         IN  IF Len(ranges) <= 1 THEN [ret |-> FALSE, cur |-> cur]
             ELSE LET current     == Min(ti_cursor(t, cur), str_len(t))
                      current_idx == find_visual_row(ranges, current)
                  IN  IF (up /\ current_idx = 0)
                         \/ (~up /\ ~(current_idx + 1 < Len(ranges)))
                      THEN [ret |-> FALSE, cur |-> cur]
                      ELSE LET target_idx == IF up THEN current_idx - 1
                                             ELSE current_idx + 1
                               goal_col   == cursor_visual_position(t, cur, w)[2]
                               start_     == ranges[target_idx + 1][1]
                               end_       == ranges[target_idx + 1][2]
                               sc         == goal_scan(slice(t, start_, end_), 1,
                                                       start_, 0, start_, goal_col)
                               target     == IF sc[1] < goal_col THEN end_
                                             ELSE sc[2]
                           IN  [ret |-> TRUE,
                                cur |-> set_cursor_byte_offset(t, target)]

cursor_visual_line_end(t, cur, w) ==
    IF w = 0 \/ t = <<>> THEN cursor_end(t)
    ELSE LET ranges == wrapped_row_ranges(t, w)
         IN  IF ranges = <<>> THEN cur
             ELSE LET r == find_visual_row(ranges,
                                           Min(ti_cursor(t, cur), str_len(t)))
                  IN  set_cursor_byte_offset(t, Min(ranges[r + 1][2], str_len(t)))

\* 'a'; ' '; '\n'; U+0301 (zero width); U+4E16 (wide)
InputAlphabet == {97, 32, NL, 769, 19990}
\* Every short text, and "aaaa", "a\naa" (rows of equal length at width 2;
\* a newline-ended row above soft-wrapped ones at width 1).
InputTexts ==
    Strings(InputAlphabet, MaxInput)
        \cup {<<97, 97, 97, 97>>, <<97, NL, 97, 97>>}

NoInputCall == [op |-> "with_text", width |-> 0, up |-> FALSE, before |-> 0,
                ret |-> FALSE, pos |-> <<0, 0>>]

\* List lengths and indices passed to ListState: the small ones, and those
\* of the documented viewport scenario (total 20, selected 12).
Lens    == (0..MaxItems) \cup {20}
Indices == (0..MaxItems) \cup {12}

NoCall == [op |-> "new", len |-> 0, vh |-> 0, prev_offset |-> 0]

(***************************************************************************)
(* components/dropdown.rs: FuzzyDropdown.  An item is known by its index,  *)
(* so the items are their number.  What SkimMatcherV2 says of an item's    *)
(* key is the library's: no match (0), or a score, here weak (1) or        *)
(* strong (2).                                                             *)
(***************************************************************************)
Scores == {0, 1, 2}

\* What the matcher may say of each of n items.
ScoresOf(n) == [0..(n - 1) -> Scores]

\* (0..n).collect(): the indices of n items in order
iota(n) == [k \in 1..n |-> k - 1]

\* Vec::truncate / Iterator::take
take(seq, n) == SubSeq(seq, 1, Min(n, Len(seq)))

\* matches.sort_by(|a, b| b.1.cmp(&a.1)): a stable sort, highest score first
RECURSIVE sort_by_score(_, _, _)
sort_by_score(idxs, score, ss) ==
    IF ss = {} THEN <<>>
    ELSE LET top == CHOOSE a \in ss : \A b \in ss : b <= a
         IN  SelectSeq(idxs, LAMBDA i : score[i] = top)
                \o sort_by_score(idxs, score, ss \ {top})

\* FuzzyDropdown::update_filter: the indices handed to DropdownList::reset
update_filter(n, filter, empty_limit, filtered_limit, score) ==
    LET matches == IF filter = <<>> THEN take(iota(n), empty_limit)
                   ELSE SelectSeq(iota(n), LAMBDA i : score[i] > 0)
        sorted  == IF filter = <<>> THEN matches
                   ELSE sort_by_score(matches, score, Scores \ {0})
        limit   == IF filter = <<>> THEN empty_limit ELSE filtered_limit
    IN  take(sorted, limit)

\* ListState::set_selected
set_selected(index, len) == IF len = 0 THEN 0 ELSE Min(index, len - 1)

\* The filters the model passes: "" and "a".
DropFilters == {<<>>, <<97>>}

(***************************************************************************)
(* wizard/framework.rs: WizardFlow.  The steps are their number; the item  *)
(* is one of two values, 0 being T::default_item().                        *)
(***************************************************************************)
can_go_back(i) == i > 0

\* Variant of can_go_forward: the index is compared with steps.len().
can_go_forward_len(i, n) == i < n

\* can_go_forward for a flow with steps
can_go_forward(i, n) == i < n - 1

\* What can_go_forward does: with no steps `self.steps.len() - 1` overflows,
\* which panics where overflow is checked and gives usize::MAX elsewhere.
can_go_forward_results(i, n) ==
    IF n = 0 THEN {"panic", "true"}
    ELSE IF can_go_forward(i, n) THEN {"true"} ELSE {"false"}

WizardItems == {0, 1}

NoWizardCall == [op |-> "none", ret |-> "ok", before |-> 0, item |-> 0]

(***************************************************************************)
(* layout/picker_kit/mod.rs: PickerState and picker_update_state.  The     *)
(* items are their number; search_input is its text; the score of an item  *)
(* for a query is the matcher's (0: the item does not match).  A state is  *)
(* the record of PickerState's fields.                                     *)
(***************************************************************************)
\* query.trim().is_empty()
trim_is_empty(q) == \A k \in 1..Len(q) : is_whitespace(q[k])

\* fuzzy_indices_any_field / fuzzy_indices_tokenized_surface: every index for
\* a blank query, else the matching indices, highest score first (stable).
fuzzy_indices(n, q, score) ==
    IF trim_is_empty(q) THEN iota(n)
    ELSE sort_by_score(SelectSeq(iota(n), LAMBDA i : score[i] > 0),
                       score, Scores \ {0})

PickerState_default ==
    [is_open |-> FALSE, is_loading |-> FALSE, items |-> 0, search_input |-> <<>>,
     filtered_indices |-> <<>>, selected |-> 0, viewport_offset |-> 0]

PickerState_update_filter(st, score) ==
    LET fi  == fuzzy_indices(st.items, st.search_input, score)
        len == Len(fi)
    IN  [st EXCEPT !.filtered_indices = fi,
                   !.selected = IF len = 0 THEN 0 ELSE Min(@, len - 1)]

PickerState_open(st, n, score) ==
    PickerState_update_filter(
        [st EXCEPT !.is_open = TRUE, !.is_loading = FALSE, !.items = n,
                   !.search_input = <<>>, !.filtered_indices = <<>>,
                   !.selected = 0],
        score)

\* Variant of open_loading: the filtered indices are kept.
PickerState_open_loading_stale(st) ==
    [st EXCEPT !.is_open = TRUE, !.is_loading = TRUE, !.items = 0,
               !.selected = 0]

PickerState_open_loading(st) ==
    [st EXCEPT !.is_open = TRUE, !.is_loading = TRUE, !.items = 0,
               !.filtered_indices = <<>>, !.selected = 0]

PickerState_close(st) ==
    [st EXCEPT !.is_open = FALSE, !.is_loading = FALSE,
               !.search_input = <<>>, !.filtered_indices = <<>>]

PickerMsg(kind, query, arg) == [kind |-> kind, query |-> query, arg |-> arg]

picker_update_state(st, msg, score) ==
    LET len == Len(st.filtered_indices)
    IN  CASE msg.kind = "UpdateSearch" ->
               [PickerState_update_filter(
                    [st EXCEPT !.search_input = msg.query], score)
                  EXCEPT !.selected = 0, !.viewport_offset = 0]
          [] msg.kind = "ClearSearch" ->
               [PickerState_update_filter(
                    [st EXCEPT !.search_input = <<>>], score)
                  EXCEPT !.selected = 0, !.viewport_offset = 0]
          [] msg.kind = "SelectNext" ->
               IF len > 0
               THEN [st EXCEPT !.selected = select_next(@, len)] ELSE st
          [] msg.kind = "SelectPrevious" ->
               IF len > 0
               THEN [st EXCEPT !.selected = select_prev(@, len)] ELSE st
          [] msg.kind = "SelectIndex" ->
               IF len > 0
               THEN [st EXCEPT !.selected = Min(msg.arg, len - 1)] ELSE st
          [] msg.kind = "PageUp" ->
               IF len > 0
               THEN [st EXCEPT !.selected =
                                 scroll_lines(@, -Max(msg.arg, 1), len)]
               ELSE st
          [] msg.kind = "PageDown" ->
               IF len > 0
               THEN [st EXCEPT !.selected =
                                 scroll_lines(@, Max(msg.arg, 1), len)]
               ELSE st
          [] msg.kind = "JumpTop" -> [st EXCEPT !.selected = 0]
          [] msg.kind = "JumpBottom" ->
               IF len > 0 THEN [st EXCEPT !.selected = len - 1] ELSE st
          [] msg.kind = "ScrollUp" ->
               IF len > 0
               THEN [st EXCEPT !.selected = scroll_lines(@, -3, len)] ELSE st
          [] msg.kind = "ScrollDown" ->
               IF len > 0
               THEN [st EXCEPT !.selected = scroll_lines(@, 3, len)] ELSE st
          [] msg.kind = "Close" -> PickerState_close(st)
          [] OTHER -> st

\* mouse_select_update_offset for a press on the row of visible index i
mouse_select_update_offset(st, i, total, visible_height) ==
    LET sel == Min(i, saturating_sub(total, 1))
    IN  [st EXCEPT !.selected = sel,
                   !.viewport_offset =
                       calculate_viewport_offset_internal(
                           sel, Max(visible_height, 1), @)]

\* Queries: "", " ", "a", "a ".
PickerQueries == {<<>>, <<32>>, <<97>>, <<97, 32>>}

PickerMsgs ==
    {PickerMsg("UpdateSearch", q, 0) : q \in PickerQueries}
        \cup {PickerMsg(k, <<>>, 0) :
                k \in {"ClearSearch", "SelectNext", "SelectPrevious", "JumpTop",
                       "JumpBottom", "ScrollUp", "ScrollDown", "Confirm",
                       "Close", "Custom"}}
        \cup {PickerMsg(k, <<>>, a) :
                k \in {"SelectIndex", "PageUp", "PageDown"},
                a \in 0..(MaxPick + 1)}

NoPickerCall == [op |-> "none", selected |-> 0, viewport_offset |-> 0]

(***************************************************************************)
(* components/lines_viewport.rs.  A line is known by its position (from 1) *)
(* in history_lines followed by tail_lines; what is drawn is the sequence  *)
(* of <<screen row, line>> in drawing order.  The area lies inside the     *)
(* frame's buffer.                                                         *)
(***************************************************************************)
\* a <= b <= v.len(): &v[a..b] does not panic
slice_ok(v, a, b) == a <= b /\ b <= Len(v)

\* &v[a..b] where it does not panic
slice_range(v, a, b) == SubSeq(v, a + 1, b)

\* LinesViewport::render into a rectangle at row y, height rows tall
LinesViewport_render(ls, y, height) ==
    [row \in 1..Min(Len(ls), height) |-> <<y + (row - 1), ls[row]>>]

Drawn(d)    == [panic |-> FALSE, drawn |-> d]
SlicePanic  == [panic |-> TRUE, drawn |-> <<>>]

\* render_lines_slice: what it draws, or the panic of a slice expression
render_lines_slice(history_lines, tail_lines, area_y, area_height, start_idx) ==
    LET history_len == Len(history_lines)
        remaining   == area_height
    IN  IF start_idx < history_len
        THEN LET end_history == Min(start_idx + remaining, history_len)
                 hslice == slice_range(history_lines, start_idx, end_history)
                 h      == Len(hslice)
                 first  == IF h > 0
                           THEN LinesViewport_render(hslice, area_y, h)
                           ELSE <<>>
                 y1     == IF h > 0 THEN area_y + h ELSE area_y
                 rem1   == IF h > 0 THEN saturating_sub(remaining, h)
                           ELSE remaining
                 end_tail == Min(rem1, Len(tail_lines))
                 tslice == slice_range(tail_lines, 0, end_tail)
             IN  IF ~slice_ok(history_lines, start_idx, end_history)
                 THEN SlicePanic
                 ELSE IF rem1 > 0 /\ Len(tslice) > 0
                 THEN Drawn(first
                              \o LinesViewport_render(tslice, y1, Len(tslice)))
                 ELSE Drawn(first)
        ELSE LET tail_start == saturating_sub(start_idx, history_len)
                 end_tail   == Min(tail_start + remaining, Len(tail_lines))
             IN  IF ~slice_ok(tail_lines, tail_start, end_tail)
                 THEN SlicePanic
                 ELSE Drawn(LinesViewport_render(
                                slice_range(tail_lines, tail_start, end_tail),
                                area_y, area_height))

\* history_lines and tail_lines of the given lengths
HistoryLines(h) == [k \in 1..h |-> k]
TailLines(h, t) == [k \in 1..t |-> h + k]

NoRender == [history |-> 0, tail |-> 0, y |-> 0, height |-> 0, start |-> 0]

(***************************************************************************)
(* Idle values of the parts a specification does not exercise.             *)
(***************************************************************************)
WrapIdle ==
    /\ text = <<>> /\ content_width = 0 /\ rows = <<>> /\ start = 0
    /\ width_cols = 0 /\ last_break = 0 /\ idx = 0 /\ wpc = "off"
    /\ cursor = 0 /\ row_idx = 0

CursorIdle ==
    /\ lines = <<>> /\ cur_in = <<0, 0>> /\ offset = 0 /\ cur_out = <<0, 0>>
    /\ cpc = "off"

ListIdle == selected = 0 /\ viewport_offset = 0 /\ last = NoCall

ThumbIdle ==
    /\ track_h = 0 /\ visible_rows = 0 /\ total_rows = 0 /\ scroll = 0
    /\ thumb = <<0, 0, 0>> /\ tpc = "off"
    /\ scroll1 = 0 /\ thumb1 = <<0, 0, 0>>

GuardIdle ==
    /\ inline_mode = FALSE /\ guards = <<>> /\ created = 0
    /\ dialog = NoDialog

ProgIdle ==
    /\ ppc = "off" /\ pending = <<>> /\ produced = <<>> /\ applied = <<>>
    /\ init_msgs = {} /\ init_calls = 0 /\ view_calls = 0 /\ key = NoKey
    /\ exit_keys = ExitKeysDefault

HitIdle ==
    /\ area = Rect(0, 0, 0, 0) /\ hit_total = 0 /\ mouse = <<0, 0>>
    /\ hit = None /\ hpc = "off"

\* ---- idle values of the further components ----
NoDragCall == [fn |-> "none", args |-> <<>>, res |-> <<>>]

DragIdle ==
    drag_call = NoDragCall

InputIdle ==
    ti_text = <<>> /\ ti_cur = <<0, 0>> /\ ti_call = NoInputCall

FuzzyIdle ==
    dd_items = 0 /\ dd_filtered = <<>> /\ dd_filter = <<>> /\ dd_selected = 0
    /\ dd_offset = 0 /\ dd_last = "none"

WizardIdle ==
    wz_steps = 0 /\ wz_idx = 0 /\ wz_item = 0 /\ wz_last = NoWizardCall

PickerIdle ==
    picker = PickerState_default /\ pk_last = NoPickerCall

LinesIdle ==
    rl_in = NoRender /\ rl_out = Drawn(<<>>) /\ rl_pc = "off"

ExtIdle ==
    DragIdle /\ InputIdle /\ FuzzyIdle /\ WizardIdle /\ PickerIdle /\ LinesIdle

DragOthersIdle ==
    /\ WrapIdle /\ CursorIdle /\ ListIdle /\ ThumbIdle
    /\ GuardIdle /\ ProgIdle /\ HitIdle
    /\ InputIdle /\ FuzzyIdle /\ WizardIdle /\ PickerIdle /\ LinesIdle

InputOthersIdle ==
    /\ WrapIdle /\ CursorIdle /\ ListIdle /\ ThumbIdle
    /\ GuardIdle /\ ProgIdle /\ HitIdle
    /\ DragIdle /\ FuzzyIdle /\ WizardIdle /\ PickerIdle /\ LinesIdle

FuzzyOthersIdle ==
    /\ WrapIdle /\ CursorIdle /\ ListIdle /\ ThumbIdle
    /\ GuardIdle /\ ProgIdle /\ HitIdle
    /\ DragIdle /\ InputIdle /\ WizardIdle /\ PickerIdle /\ LinesIdle

WizardOthersIdle ==
    /\ WrapIdle /\ CursorIdle /\ ListIdle /\ ThumbIdle
    /\ GuardIdle /\ ProgIdle /\ HitIdle
    /\ DragIdle /\ InputIdle /\ FuzzyIdle /\ PickerIdle /\ LinesIdle

PickerOthersIdle ==
    /\ WrapIdle /\ CursorIdle /\ ListIdle /\ ThumbIdle
    /\ GuardIdle /\ ProgIdle /\ HitIdle
    /\ DragIdle /\ InputIdle /\ FuzzyIdle /\ WizardIdle /\ LinesIdle

LinesOthersIdle ==
    /\ WrapIdle /\ CursorIdle /\ ListIdle /\ ThumbIdle
    /\ GuardIdle /\ ProgIdle /\ HitIdle
    /\ DragIdle /\ InputIdle /\ FuzzyIdle /\ WizardIdle /\ PickerIdle

\* ---- end of the further components' idle values ----
(***************************************************************************)
(* wrapped_row_ranges as a state machine: the loop one iteration at a      *)
(* time, then the final push; find_visual_row on the returned rows.        *)
(***************************************************************************)
InitWrap ==
    /\ \E in \in WrapInputs : text = in[1] /\ content_width = in[2]
    /\ rows = wrap_init.rows /\ start = wrap_init.start
    /\ width_cols = wrap_init.width_cols /\ last_break = wrap_init.last_break
    /\ idx = wrap_init.idx /\ wpc = "loop"
    /\ cursor = 0 /\ row_idx = 0
    /\ CursorIdle /\ ListIdle /\ ThumbIdle
    /\ GuardIdle /\ ProgIdle /\ HitIdle /\ ExtIdle

WrapLoop ==
    /\ wpc = "loop"
    /\ idx < str_len(text)
    /\ LET st == wrap_step(text, content_width,
                           [rows |-> rows, start |-> start,
                            width_cols |-> width_cols,
                            last_break |-> last_break, idx |-> idx])
       IN  /\ rows' = st.rows
           /\ start' = st.start
           /\ width_cols' = st.width_cols
           /\ last_break' = st.last_break
           /\ idx' = st.idx
    /\ UNCHANGED <<text, content_width, wpc, cursor, row_idx>>
    /\ UNCHANGED <<cursorVars, listVars, thumbVars,
                   guardVars, progVars, hitVars, extVars>>

WrapReturn ==
    /\ wpc = "loop"
    /\ ~(idx < str_len(text))
    /\ rows' = Append(rows, <<start, str_len(text)>>)
    /\ wpc' = "done"
    /\ UNCHANGED <<text, content_width, start, width_cols, last_break, idx,
                   cursor, row_idx>>
    /\ UNCHANGED <<cursorVars, listVars, thumbVars,
                   guardVars, progVars, hitVars, extVars>>

FindVisualRow ==
    /\ wpc = "done"
    /\ \E o \in boundaries(text) :
          /\ cursor' = o
          /\ row_idx' = find_visual_row(rows, o)
    /\ wpc' = "found"
    /\ UNCHANGED <<text, content_width, rows, start, width_cols, last_break,
                   idx>>
    /\ UNCHANGED <<cursorVars, listVars, thumbVars,
                   guardVars, progVars, hitVars, extVars>>

NextWrap == WrapLoop \/ WrapReturn \/ FindVisualRow

SpecWrap == InitWrap /\ [][NextWrap]_vars

(***************************************************************************)
(* cursor_to_byte_offset, then byte_offset_to_cursor on its result; and    *)
(* byte_offset_to_cursor on an arbitrary offset.                           *)
(***************************************************************************)
InitCursor ==
    /\ lines \in LineLists
    /\ cur_in = <<0, 0>> /\ offset = 0 /\ cur_out = <<0, 0>> /\ cpc = "idle"
    /\ WrapIdle /\ ListIdle /\ ThumbIdle
    /\ GuardIdle /\ ProgIdle /\ HitIdle /\ ExtIdle

CursorToByteOffset ==
    /\ cpc = "idle"
    /\ \E row \in 0..Len(lines), col \in 0..(MaxFlat + 1) :
          /\ cur_in' = <<row, col>>
          /\ offset' = cursor_to_byte_offset(lines, <<row, col>>)
    /\ cpc' = "offset"
    /\ UNCHANGED <<lines, cur_out>>
    /\ UNCHANGED <<wrapVars, listVars, thumbVars,
                   guardVars, progVars, hitVars, extVars>>

ByteOffsetToCursor ==
    /\ cpc = "offset"
    /\ cur_out' = byte_offset_to_cursor(lines, offset)
    /\ cpc' = "cursor"
    /\ UNCHANGED <<lines, cur_in, offset>>
    /\ UNCHANGED <<wrapVars, listVars, thumbVars,
                   guardVars, progVars, hitVars, extVars>>

\* byte_offset_to_cursor on any offset, up to two bytes past the buffer.
LocateOffset ==
    /\ cpc = "idle"
    /\ \E o \in 0..(str_len(joined(lines)) + 2) :
          /\ offset' = o
          /\ cur_out' = byte_offset_to_cursor(lines, o)
    /\ cpc' = "located"
    /\ UNCHANGED <<lines, cur_in>>
    /\ UNCHANGED <<wrapVars, listVars, thumbVars,
                   guardVars, progVars, hitVars, extVars>>

NextCursor == CursorToByteOffset \/ ByteOffsetToCursor \/ LocateOffset

SpecCursor == InitCursor /\ [][NextCursor]_vars

(***************************************************************************)
(* ListState: its fields are public, so it starts with any selection and   *)
(* offset; each method is one action.                                      *)
(***************************************************************************)
InitList ==
    /\ selected \in Indices
    /\ viewport_offset \in 0..MaxItems
    /\ last = NoCall
    /\ WrapIdle /\ CursorIdle /\ ThumbIdle
    /\ GuardIdle /\ ProgIdle /\ HitIdle /\ ExtIdle

Called(op, len, vh, prev) ==
    last' = [op |-> op, len |-> len, vh |-> vh, prev_offset |-> prev]

ClampSelection ==
    /\ \E len \in Lens :
          /\ selected' = IF len = 0 THEN 0
                         ELSE IF selected >= len THEN len - 1 ELSE selected
          /\ Called("clamp_selection", len, 0, 0)
    /\ UNCHANGED viewport_offset
    /\ UNCHANGED <<wrapVars, cursorVars, thumbVars,
                   guardVars, progVars, hitVars, extVars>>

SetSelected ==
    /\ \E i \in Indices, len \in Lens :
          /\ selected' = IF len = 0 THEN 0 ELSE Min(i, len - 1)
          /\ Called("set_selected", len, 0, 0)
    /\ UNCHANGED viewport_offset
    /\ UNCHANGED <<wrapVars, cursorVars, thumbVars,
                   guardVars, progVars, hitVars, extVars>>

SelectNext ==
    /\ \E len \in Lens :
          /\ selected' = select_next(selected, len)
          /\ Called("select_next", len, 0, 0)
    /\ UNCHANGED viewport_offset
    /\ UNCHANGED <<wrapVars, cursorVars, thumbVars,
                   guardVars, progVars, hitVars, extVars>>

SelectPrev ==
    /\ \E len \in Lens :
          /\ selected' = select_prev(selected, len)
          /\ Called("select_prev", len, 0, 0)
    /\ UNCHANGED viewport_offset
    /\ UNCHANGED <<wrapVars, cursorVars, thumbVars,
                   guardVars, progVars, hitVars, extVars>>

JumpTop ==
    /\ selected' = 0
    /\ Called("jump_top", 0, 0, 0)
    /\ UNCHANGED viewport_offset
    /\ UNCHANGED <<wrapVars, cursorVars, thumbVars,
                   guardVars, progVars, hitVars, extVars>>

JumpBottom ==
    /\ \E len \in Lens :
          /\ selected' = IF len > 0 THEN len - 1 ELSE selected
          /\ Called("jump_bottom", len, 0, 0)
    /\ UNCHANGED viewport_offset
    /\ UNCHANGED <<wrapVars, cursorVars, thumbVars,
                   guardVars, progVars, hitVars, extVars>>

ScrollLines ==
    /\ \E delta \in -2..2, len \in Lens :
          /\ selected' = scroll_lines(selected, delta, len)
          /\ Called("scroll_lines", len, 0, 0)
    /\ UNCHANGED viewport_offset
    /\ UNCHANGED <<wrapVars, cursorVars, thumbVars,
                   guardVars, progVars, hitVars, extVars>>

PageDown ==
    /\ \E vh \in 0..MaxHeight, len \in Lens :
          /\ selected' = scroll_lines(selected, Max(vh, 1), len)
          /\ Called("page_down", len, 0, 0)
    /\ UNCHANGED viewport_offset
    /\ UNCHANGED <<wrapVars, cursorVars, thumbVars,
                   guardVars, progVars, hitVars, extVars>>

PageUp ==
    /\ \E vh \in 0..MaxHeight, len \in Lens :
          /\ selected' = scroll_lines(selected, -Max(vh, 1), len)
          /\ Called("page_up", len, 0, 0)
    /\ UNCHANGED viewport_offset
    /\ UNCHANGED <<wrapVars, cursorVars, thumbVars,
                   guardVars, progVars, hitVars, extVars>>

UpdateOffset ==
    /\ \E vh \in 0..MaxHeight :
          /\ viewport_offset' =
                calculate_viewport_offset_internal(selected, Max(vh, 1),
                                                   viewport_offset)
          /\ Called("update_offset", 0, vh, viewport_offset)
    /\ UNCHANGED selected
    /\ UNCHANGED <<wrapVars, cursorVars, thumbVars,
                   guardVars, progVars, hitVars, extVars>>

NextList ==
    \/ ClampSelection \/ SetSelected \/ SelectNext \/ SelectPrev
    \/ JumpTop \/ JumpBottom \/ ScrollLines \/ PageDown \/ PageUp
    \/ UpdateOffset

SpecList == InitList /\ [][NextList]_vars

(***************************************************************************)
(* compute_thumb on every small input, then the way back: the thumb top    *)
(* mapped to a scroll offset and the thumb computed at that offset.        *)
(***************************************************************************)
InitThumb ==
    /\ track_h \in 0..MaxTrack
    /\ visible_rows \in 0..MaxVisible
    /\ total_rows \in 0..MaxTotal
    /\ scroll \in 0..MaxScroll
    /\ thumb = <<0, 0, 0>> /\ tpc = "idle"
    /\ scroll1 = 0 /\ thumb1 = <<0, 0, 0>>
    /\ WrapIdle /\ CursorIdle /\ ListIdle
    /\ GuardIdle /\ ProgIdle /\ HitIdle /\ ExtIdle

ComputeThumb ==
    /\ tpc = "idle"
    /\ thumb' = compute_thumb(track_h, visible_rows, total_rows, scroll)
    /\ tpc' = "done"
    /\ UNCHANGED <<track_h, visible_rows, total_rows, scroll, scroll1, thumb1>>
    /\ UNCHANGED <<wrapVars, cursorVars, listVars,
                   guardVars, progVars, hitVars, extVars>>

\* The thumb is grabbed where it is drawn: its top row is mapped back to a
\* scroll offset over max_thumb_top = track_h - thumb_h.
MapThumbToScroll ==
    /\ tpc = "done"
    /\ scroll1' = map_thumb_to_scroll_u32(thumb[2],
                                          saturating_sub(track_h, thumb[1]),
                                          thumb[3])
    /\ tpc' = "mapped"
    /\ UNCHANGED <<track_h, visible_rows, total_rows, scroll, thumb, thumb1>>
    /\ UNCHANGED <<wrapVars, cursorVars, listVars,
                   guardVars, progVars, hitVars, extVars>>

\* The thumb is drawn again at the mapped scroll offset.
ComputeThumbAgain ==
    /\ tpc = "mapped"
    /\ thumb1' = compute_thumb(track_h, visible_rows, total_rows, scroll1)
    /\ tpc' = "redrawn"
    /\ UNCHANGED <<track_h, visible_rows, total_rows, scroll, thumb, scroll1>>
    /\ UNCHANGED <<wrapVars, cursorVars, listVars,
                   guardVars, progVars, hitVars, extVars>>

NextThumb == ComputeThumb \/ MapThumbToScroll \/ ComputeThumbAgain

SpecThumb == InitThumb /\ [][NextThumb]_vars

(***************************************************************************)
(* INLINE_DIALOG_MODE and its guards.  enable() and drop are one SeqCst    *)
(* atomic access each, so the interleavings of any number of threads that  *)
(* create, hand over and drop guards are the orders of these actions; a    *)
(* guard is dropped at any time after it was created, in any order.        *)
(***************************************************************************)
InitGuard ==
    /\ inline_mode = FALSE
    /\ guards = <<>>
    /\ created = 0
    /\ dialog = NoDialog
    /\ WrapIdle /\ CursorIdle /\ ListIdle /\ ThumbIdle
    /\ ProgIdle /\ HitIdle /\ ExtIdle

Enable ==
    /\ created < MaxGuards
    /\ LET g  == InlineDialogGuard_enable(inline_mode)
           id == created + 1
       IN  /\ guards' = [i \in DOMAIN guards \cup {id} |->
                            IF i = id THEN g.prev ELSE guards[i]]
           /\ inline_mode' = g.flag
           /\ created' = id
    /\ UNCHANGED dialog
    /\ UNCHANGED <<wrapVars, cursorVars, listVars, thumbVars, progVars,
                   hitVars, extVars>>

Drop ==
    /\ \E id \in DOMAIN guards :
          /\ inline_mode' = InlineDialogGuard_drop(guards[id])
          /\ guards' = [i \in DOMAIN guards \ {id} |-> guards[i]]
    /\ UNCHANGED <<created, dialog>>
    /\ UNCHANGED <<wrapVars, cursorVars, listVars, thumbVars, progVars,
                   hitVars, extVars>>

ComputeCentered ==
    /\ \E px \in {0, 1}, pw \in 0..MaxParent, wq \in 1..4,
          mw \in (0..MaxParent) \cup {65535} :
          dialog' = [called |-> TRUE, alive |-> Cardinality(DOMAIN guards),
                     parent_x |-> px, parent_w |-> pw, width_q |-> wq,
                     max_width |-> mw,
                     area |-> compute_centered(inline_mode, px, pw, wq, mw)]
    /\ UNCHANGED <<inline_mode, guards, created>>
    /\ UNCHANGED <<wrapVars, cursorVars, listVars, thumbVars, progVars,
                   hitVars, extVars>>

NextGuard == Enable \/ Drop \/ ComputeCentered

SpecGuard == InitGuard /\ [][NextGuard]_vars

(***************************************************************************)
(* Program::run, one thread: the terminal session, init, drain_pending one *)
(* loop iteration at a time, then the event loop (draw, poll, read, exit   *)
(* test, on_key, drain_pending).  What init, update and on_key return is   *)
(* the application's choice.                                               *)
(***************************************************************************)
InitProgram ==
    /\ ppc = "new"
    /\ pending = <<>> /\ produced = <<>> /\ applied = <<>>
    /\ init_msgs = {} /\ init_calls = 0 /\ view_calls = 0 /\ key = NoKey
    /\ exit_keys \in ExitKeysSets
    /\ WrapIdle /\ CursorIdle /\ ListIdle /\ ThumbIdle
    /\ GuardIdle /\ HitIdle /\ ExtIdle

SessionNew ==
    /\ ppc = "new"
    /\ ppc' = "init"
    /\ UNCHANGED <<pending, produced, applied, init_msgs, init_calls,
                   view_calls, key, exit_keys>>
    /\ UNCHANGED <<wrapVars, cursorVars, listVars, thumbVars, guardVars,
                   hitVars, extVars>>

\* TerminalSession::new, draw, poll or read fails: run returns the error.
IoError ==
    /\ ppc \in {"new", "draw", "poll"}
    /\ ppc' = "err"
    /\ UNCHANGED <<pending, produced, applied, init_msgs, init_calls,
                   view_calls, key, exit_keys>>
    /\ UNCHANGED <<wrapVars, cursorVars, listVars, thumbVars, guardVars,
                   hitVars, extVars>>

ModelInit ==
    /\ ppc = "init"
    /\ init_calls' = init_calls + 1
    /\ \E command \in Commands(Len(produced)) :
          /\ pending' = enqueue_command(command, pending)
          /\ produced' = produced \o command.msgs
          /\ init_msgs' = Range(command.msgs)
    /\ ppc' = after_init
    /\ UNCHANGED <<applied, view_calls, key, exit_keys>>
    /\ UNCHANGED <<wrapVars, cursorVars, listVars, thumbVars, guardVars,
                   hitVars, extVars>>

\* One iteration of drain_pending's loop: pop_front, update, enqueue the
\* follow-up command.
DrainStep ==
    /\ ppc = "drain"
    /\ pending # <<>>
    /\ LET msg == Head(pending)
       IN  /\ applied' = Append(applied, msg)
           /\ \E command \in Commands(Len(produced)) :
                 /\ pending' = enqueue_command(command, Tail(pending))
                 /\ produced' = produced \o command.msgs
                 /\ init_msgs' = IF msg \in init_msgs
                                 THEN init_msgs \cup Range(command.msgs)
                                 ELSE init_msgs
    /\ UNCHANGED <<ppc, init_calls, view_calls, key, exit_keys>>
    /\ UNCHANGED <<wrapVars, cursorVars, listVars, thumbVars, guardVars,
                   hitVars, extVars>>

DrainReturn ==
    /\ ppc = "drain"
    /\ pending = <<>>
    /\ ppc' = "draw"
    /\ UNCHANGED <<pending, produced, applied, init_msgs, init_calls,
                   view_calls, key, exit_keys>>
    /\ UNCHANGED <<wrapVars, cursorVars, listVars, thumbVars, guardVars,
                   hitVars, extVars>>

Draw ==
    /\ ppc = "draw"
    /\ view_calls < MaxViews
    /\ view_calls' = view_calls + 1
    /\ ppc' = "poll"
    /\ UNCHANGED <<pending, produced, applied, init_msgs, init_calls, key,
                   exit_keys>>
    /\ UNCHANGED <<wrapVars, cursorVars, listVars, thumbVars, guardVars,
                   hitVars, extVars>>

\* poll times out, or the event read is not a key: continue.
NoKeyEvent ==
    /\ ppc = "poll"
    /\ ppc' = "draw"
    /\ UNCHANGED <<pending, produced, applied, init_msgs, init_calls,
                   view_calls, key, exit_keys>>
    /\ UNCHANGED <<wrapVars, cursorVars, listVars, thumbVars, guardVars,
                   hitVars, extVars>>

\* A key is read: break on an exit key, else on_key and, for Some(msg),
\* push_back and drain_pending.
ReadKey ==
    /\ ppc = "poll"
    /\ \E k \in Keys :
          /\ key' = k
          /\ IF should_exit_key(k, exit_keys)
             THEN /\ ppc' = "done"
                  /\ UNCHANGED <<pending, produced>>
             ELSE \/ /\ ppc' = "draw"
                     /\ UNCHANGED <<pending, produced>>
                  \/ /\ Len(produced) < MaxMsgs
                     /\ pending' = Append(pending, Len(produced) + 1)
                     /\ produced' = Append(produced, Len(produced) + 1)
                     /\ ppc' = "drain"
    /\ UNCHANGED <<applied, init_msgs, init_calls, view_calls, exit_keys>>
    /\ UNCHANGED <<wrapVars, cursorVars, listVars, thumbVars, guardVars,
                   hitVars, extVars>>

NextProgram ==
    \/ SessionNew \/ IoError \/ ModelInit \/ DrainStep \/ DrainReturn
    \/ Draw \/ NoKeyEvent \/ ReadKey

SpecProgram == InitProgram /\ [][NextProgram]_vars

(***************************************************************************)
(* index_at_content and index_at on every small rectangle, pointer cell,   *)
(* selection, offset and item count.                                       *)
(***************************************************************************)
InitHit ==
    /\ \E x \in {0, 1}, y \in {0, 1}, w \in {0, 1, 3}, h \in 0..MaxRectH :
          area = Rect(x, y, w, h)
    /\ hit_total \in 0..(MaxHit + 1)
    /\ selected \in 0..MaxHit
    /\ viewport_offset \in 0..MaxHit
    /\ mouse \in (0..3) \X (0..MaxRow)
    /\ hit = None /\ hpc = "idle"
    /\ last = NoCall
    /\ WrapIdle /\ CursorIdle /\ ThumbIdle /\ GuardIdle /\ ProgIdle /\ ExtIdle

IndexAtContent ==
    /\ hpc = "idle"
    /\ hit' = index_at_content(area, selected, viewport_offset, hit_total,
                               mouse[1], mouse[2])
    /\ hpc' = "content"
    /\ UNCHANGED <<area, hit_total, mouse>>
    /\ UNCHANGED <<wrapVars, cursorVars, listVars, thumbVars, guardVars,
                   progVars, extVars>>

IndexAt ==
    /\ hpc = "idle"
    /\ hit' = index_at(area, selected, viewport_offset, hit_total,
                       mouse[1], mouse[2])
    /\ hpc' = "bordered"
    /\ UNCHANGED <<area, hit_total, mouse>>
    /\ UNCHANGED <<wrapVars, cursorVars, listVars, thumbVars, guardVars,
                   progVars, extVars>>

NextHit == IndexAtContent \/ IndexAt

SpecHit == InitHit /\ [][NextHit]_vars

(***************************************************************************)
(* The scrollbar drag helpers, each called once on every generated input.  *)
(***************************************************************************)
InitDrag == drag_call = NoDragCall /\ DragOthersIdle

StartDrag ==
    /\ drag_call = NoDragCall
    /\ \E my \in DragU16, ttop \in DragU16, th \in DragU16 :
          drag_call' = [fn |-> "start_drag", args |-> <<my, ttop, th>>,
                        res |-> start_drag(my, ttop, th)]
    /\ UNCHANGED dragOthers

DesiredFromClick ==
    /\ drag_call = NoDragCall
    /\ \E my \in DragU16, top \in DragU16, height \in DragU16,
          grab_offset \in DragU16, th \in DragU16 :
          drag_call' = [fn |-> "desired_from_click",
                        args |-> <<my, top, height, grab_offset, th>>,
                        res |-> desired_from_click(my, top, height,
                                                   grab_offset, th)]
    /\ UNCHANGED dragOthers

MapThumbToScrollU32 ==
    /\ drag_call = NoDragCall
    /\ \E thumb_pos \in DragU16, max_thumb_top \in DragU16,
          max_scroll \in DragU32 :
          \E r \in map_thumb_to_scroll_u32_results(thumb_pos, max_thumb_top,
                                                    max_scroll) :
             drag_call' = [fn |-> "map_thumb_to_scroll_u32",
                           args |-> <<thumb_pos, max_thumb_top, max_scroll>>,
                           res |-> r]
    /\ UNCHANGED dragOthers

MapThumbToScrollU16 ==
    /\ drag_call = NoDragCall
    /\ \E thumb_pos \in DragU16, max_thumb_top \in DragU16,
          max_scroll \in DragU16 :
          drag_call' = [fn |-> "map_thumb_to_scroll_u16",
                        args |-> <<thumb_pos, max_thumb_top, max_scroll>>,
                        res |-> map_thumb_to_scroll_u16(thumb_pos,
                                                        max_thumb_top,
                                                        max_scroll)]
    /\ UNCHANGED dragOthers

NextDrag ==
    StartDrag \/ DesiredFromClick \/ MapThumbToScrollU32 \/ MapThumbToScrollU16

SpecDrag == InitDrag /\ [][NextDrag]_vars

(***************************************************************************)
(* TextInput: built with any text (cursor at the end), then any sequence   *)
(* of cursor calls at any width.                                           *)
(***************************************************************************)
InitInput ==
    /\ ti_text \in InputTexts
    /\ ti_cur = cursor_end(ti_text)
    /\ ti_call = NoInputCall
    /\ InputOthersIdle

InputCalled(op, w, up, ret, pos) ==
    ti_call' = [op |-> op, width |-> w, up |-> up,
                before |-> ti_cursor(ti_text, ti_cur), ret |-> ret, pos |-> pos]

SetCursorByteOffset ==
    /\ \E off \in 0..(str_len(ti_text) + 1) :
          /\ ti_cur' = set_cursor_byte_offset(ti_text, off)
          /\ InputCalled("set_cursor_byte_offset", 0, FALSE, FALSE, <<0, 0>>)
    /\ UNCHANGED ti_text
    /\ UNCHANGED inputOthers

CursorVisualPosition ==
    /\ \E w \in 0..MaxWidth :
          InputCalled("cursor_visual_position", w, FALSE, FALSE,
                      cursor_visual_position(ti_text, ti_cur, w))
    /\ UNCHANGED <<ti_text, ti_cur>>
    /\ UNCHANGED inputOthers

CursorMoveVisualVertical ==
    /\ \E up \in BOOLEAN, w \in 0..MaxWidth :
          LET r == cursor_move_visual_vertical(ti_text, ti_cur, up, w)
          IN  /\ ti_cur' = r.cur
              /\ InputCalled("cursor_move_visual_vertical", w, up, r.ret,
                             cursor_visual_position(ti_text, ti_cur, w))
    /\ UNCHANGED ti_text
    /\ UNCHANGED inputOthers

CursorVisualLineEnd ==
    /\ \E w \in 0..MaxWidth :
          /\ ti_cur' = cursor_visual_line_end(ti_text, ti_cur, w)
          /\ InputCalled("cursor_visual_line_end", w, FALSE, FALSE,
                         cursor_visual_position(ti_text, ti_cur, w))
    /\ UNCHANGED ti_text
    /\ UNCHANGED inputOthers

NextInput ==
    \/ SetCursorByteOffset \/ CursorVisualPosition
    \/ CursorMoveVisualVertical \/ CursorVisualLineEnd

SpecInput == InitInput /\ [][NextInput]_vars

(***************************************************************************)
(* FuzzyDropdown: new, then any sequence of update_filter, update_items    *)
(* and selection calls.                                                    *)
(***************************************************************************)
InitFuzzy ==
    /\ dd_items \in 0..MaxDropItems
    /\ dd_filtered = <<>> /\ dd_filter = <<>>
    /\ dd_selected = 0 /\ dd_offset = 0
    /\ dd_last = "new"
    /\ FuzzyOthersIdle

\* update_filter ends in DropdownList::reset
UpdateFilter ==
    /\ \E filter \in DropFilters, empty_limit \in 0..MaxLimit,
          filtered_limit \in 0..MaxLimit,
          score \in ScoresOf(dd_items) :
          /\ dd_filtered' = update_filter(dd_items, filter, empty_limit,
                                          filtered_limit, score)
          /\ dd_filter' = filter
    /\ dd_selected' = 0
    /\ dd_offset' = 0
    /\ dd_last' = "update_filter"
    /\ UNCHANGED dd_items
    /\ UNCHANGED fuzzyOthers

UpdateItems ==
    /\ \E n \in 0..MaxDropItems : dd_items' = n
    /\ dd_last' = "update_items"
    /\ UNCHANGED <<dd_filtered, dd_filter, dd_selected, dd_offset>>
    /\ UNCHANGED fuzzyOthers

SetSelectedIndex ==
    /\ \E index \in 0..(MaxDropItems + 1) :
          dd_selected' = IF Len(dd_filtered) > 0
                         THEN set_selected(index, Len(dd_filtered))
                         ELSE dd_selected
    /\ dd_last' = "set_selected_index"
    /\ UNCHANGED <<dd_items, dd_filtered, dd_filter, dd_offset>>
    /\ UNCHANGED fuzzyOthers

SelectPrevious ==
    /\ dd_selected' = IF Len(dd_filtered) > 0
                      THEN select_prev(dd_selected, Len(dd_filtered))
                      ELSE dd_selected
    /\ dd_last' = "select_previous"
    /\ UNCHANGED <<dd_items, dd_filtered, dd_filter, dd_offset>>
    /\ UNCHANGED fuzzyOthers

FuzzySelectNext ==
    /\ dd_selected' = IF Len(dd_filtered) > 0
                      THEN select_next(dd_selected, Len(dd_filtered))
                      ELSE dd_selected
    /\ dd_last' = "select_next"
    /\ UNCHANGED <<dd_items, dd_filtered, dd_filter, dd_offset>>
    /\ UNCHANGED fuzzyOthers

NextFuzzy ==
    \/ UpdateFilter \/ UpdateItems \/ SetSelectedIndex
    \/ SelectPrevious \/ FuzzySelectNext

SpecFuzzy == InitFuzzy /\ [][NextFuzzy]_vars

(***************************************************************************)
(* WizardFlow: new, then any sequence of advance, go_back, set_item and    *)
(* handle_key (the step may change the item).  After a panic the flow is   *)
(* gone.                                                                   *)
(***************************************************************************)
InitWizard ==
    /\ wz_steps \in 0..MaxSteps
    /\ wz_idx = 0
    /\ wz_item = 0
    /\ wz_last = [op |-> "new", ret |-> "ok", before |-> 0, item |-> 0]
    /\ WizardOthersIdle

WizardCalled(op, ret) ==
    wz_last' = [op |-> op, ret |-> ret, before |-> wz_idx, item |-> wz_item]

Advance ==
    /\ wz_last.ret # "panic"
    /\ wz_idx < MaxSteps
    /\ \E fwd \in can_go_forward_results(wz_idx, wz_steps) :
          \/ /\ fwd = "panic"
             /\ WizardCalled("advance", "panic")
             /\ UNCHANGED wz_idx
          \/ /\ fwd = "false"
             /\ WizardCalled("advance", "err")
             /\ UNCHANGED wz_idx
          \/ /\ fwd = "true"
             /\ wz_idx' = wz_idx + 1
             /\ WizardCalled("advance", "ok")
    /\ UNCHANGED <<wz_steps, wz_item>>
    /\ UNCHANGED wizardOthers

GoBack ==
    /\ wz_last.ret # "panic"
    /\ IF ~can_go_back(wz_idx)
       THEN WizardCalled("go_back", "err") /\ UNCHANGED wz_idx
       ELSE wz_idx' = wz_idx - 1 /\ WizardCalled("go_back", "ok")
    /\ UNCHANGED <<wz_steps, wz_item>>
    /\ UNCHANGED wizardOthers

SetItem ==
    /\ wz_last.ret # "panic"
    /\ \E it \in WizardItems : wz_item' = it
    /\ WizardCalled("set_item", "ok")
    /\ UNCHANGED <<wz_steps, wz_idx>>
    /\ UNCHANGED wizardOthers

\* self.steps[idx] is out of bounds when the index is not below steps.len()
WizardHandleKey ==
    /\ wz_last.ret # "panic"
    /\ IF wz_idx < wz_steps
       THEN /\ \E it \in WizardItems : wz_item' = it
            /\ WizardCalled("handle_key", "ok")
       ELSE /\ WizardCalled("handle_key", "panic")
            /\ UNCHANGED wz_item
    /\ UNCHANGED <<wz_steps, wz_idx>>
    /\ UNCHANGED wizardOthers

NextWizard == Advance \/ GoBack \/ SetItem \/ WizardHandleKey

SpecWizard == InitWizard /\ [][NextWizard]_vars

(***************************************************************************)
(* PickerState: default, then any sequence of open, open_loading, close,   *)
(* picker messages, and mouse presses on a row of the open picker's list.  *)
(***************************************************************************)
InitPicker ==
    /\ picker = PickerState_default
    /\ pk_last = [op |-> "default", selected |-> 0, viewport_offset |-> 0]
    /\ PickerOthersIdle

PickerCalled(op) ==
    pk_last' = [op |-> op, selected |-> picker.selected,
                viewport_offset |-> picker.viewport_offset]

\* The scores the matcher is asked for: none when the query is blank.
PickerScores(n, q) ==
    IF trim_is_empty(q) THEN {[i \in 0..(n - 1) |-> 0]} ELSE ScoresOf(n)

PickerOpen ==
    /\ \E n \in 0..MaxPick :
          \E score \in PickerScores(n, <<>>) :
             picker' = PickerState_open(picker, n, score)
    /\ PickerCalled("open")
    /\ UNCHANGED pickerOthers

PickerOpenLoading ==
    /\ picker' = PickerState_open_loading(picker)
    /\ PickerCalled("open_loading")
    /\ UNCHANGED pickerOthers

PickerClose ==
    /\ picker' = PickerState_close(picker)
    /\ PickerCalled("close")
    /\ UNCHANGED pickerOthers

PickerUpdateState ==
    /\ \E msg \in PickerMsgs :
          \E score \in PickerScores(picker.items,
                                    IF msg.kind = "UpdateSearch"
                                    THEN msg.query ELSE <<>>) :
             /\ picker' = picker_update_state(picker, msg, score)
             /\ PickerCalled(msg.kind)
    /\ UNCHANGED pickerOthers

\* mouse_to_picker_msg, left button pressed on a list row
PickerMouseDown ==
    /\ picker.is_open
    /\ Len(picker.filtered_indices) > 0
    /\ \E i \in 0..(Len(picker.filtered_indices) - 1), vh \in 0..MaxPick :
          picker' = mouse_select_update_offset(
                        picker, i, Len(picker.filtered_indices), vh)
    /\ PickerCalled("mouse_down")
    /\ UNCHANGED pickerOthers

NextPicker ==
    \/ PickerOpen \/ PickerOpenLoading \/ PickerClose
    \/ PickerUpdateState \/ PickerMouseDown

SpecPicker == InitPicker /\ [][NextPicker]_vars

(***************************************************************************)
(* render_lines_slice, called once on every generated input.               *)
(***************************************************************************)
InitLines ==
    /\ rl_in \in [history : 0..MaxHistory, tail : 0..MaxHistory, y : {0, 1},
                  height : 0..MaxViewH, start : 0..MaxStart]
    /\ rl_out = Drawn(<<>>)
    /\ rl_pc = "call"
    /\ LinesOthersIdle

RenderLinesSlice ==
    /\ rl_pc = "call"
    /\ rl_out' = render_lines_slice(HistoryLines(rl_in.history),
                                    TailLines(rl_in.history, rl_in.tail),
                                    rl_in.y, rl_in.height, rl_in.start)
    /\ rl_pc' = "done"
    /\ UNCHANGED rl_in
    /\ UNCHANGED linesOthers

NextLines == RenderLinesSlice

SpecLines == InitLines /\ [][NextLines]_vars

(***************************************************************************)
(* Properties.                                                             *)
(***************************************************************************)
Returned == wpc \in {"done", "found"}
TextLen  == str_len(text)
\* Byte offsets of the text's newline characters.
NewlineBytes == {byte_of(text, k) : k \in {j \in 1..Len(text) : text[j] = NL}}
\* Bytes covered by row i.
RowBytes(i) == {b \in 0..(TextLen - 1) : rows[i][1] <= b /\ b < rows[i][2]}

\* C1 (as stated): the returned rows, in order, partition [0, len): the first
\* row starts at 0, each row starts exactly where the previous one ends, the
\* last row ends at len, there is at least one row, and the empty text gives
\* the single row (0,0).
C1_Partition ==
    (Returned /\ content_width >= 1) =>
        /\ Len(rows) >= 1
        /\ rows[1][1] = 0
        /\ \A i \in 1..(Len(rows) - 1) : rows[i + 1][1] = rows[i][2]
        /\ rows[Len(rows)][2] = TextLen
        /\ (text = <<>> => rows = << <<0, 0>> >>)

\* C1 (amended): the returned rows are ordered and non-overlapping, the first
\* starts at 0, the last ends at len, and each row starts where the previous
\* one ends or, when the byte at the previous row's end is a newline, one
\* byte after it; there is at least one row, and the empty text gives (0,0).
C1_PartitionModuloNewlines ==
    Returned =>
        /\ Len(rows) >= 1
        /\ rows[1][1] = 0
        /\ \A i \in 1..Len(rows) : rows[i][1] <= rows[i][2]
        /\ \A i \in 1..(Len(rows) - 1) :
              \/ /\ rows[i + 1][1] = rows[i][2]
                 /\ rows[i][2] \notin NewlineBytes
              \/ /\ rows[i + 1][1] = rows[i][2] + 1
                 /\ rows[i][2] \in NewlineBytes
        /\ rows[Len(rows)][2] = TextLen
        /\ (text = <<>> => rows = << <<0, 0>> >>)

\* A returned row list with a row ended by a newline and a row ended by a
\* wrap at an earlier break candidate.
C1_Witness ==
    /\ wpc = "done"
    /\ content_width >= 1
    /\ \E i \in 1..(Len(rows) - 1) : rows[i + 1][1] = rows[i][2] + 1
    /\ \E i \in 1..(Len(rows) - 1) :
          rows[i + 1][1] = rows[i][2] /\ is_whitespace(char_at(text, rows[i][2] - 1))

\* C2: for width >= 1 and a text none of whose characters is wider than the
\* width, the display widths of the characters of every returned row sum to
\* at most the width.
C2_RowsFit ==
    (/\ Returned
     /\ content_width >= 1
     /\ \A k \in 1..Len(text) : unicode_width(text[k]) <= content_width)
        => \A i \in 1..Len(rows) :
              display_width(slice(text, rows[i][1], rows[i][2])) <= content_width

\* C3 (as stated): find_visual_row returns the unique row i with
\* start <= o and (o < end, or i is the last row and o = len).
C3_Holds(i) ==
    /\ rows[i][1] <= cursor
    /\ \/ cursor < rows[i][2]
       \/ i = Len(rows) /\ cursor = TextLen

C3_RowContainment ==
    wpc = "found" =>
        /\ C3_Holds(row_idx + 1)
        /\ \A j \in 1..Len(rows) : C3_Holds(j) => j = row_idx + 1

\* C3 (amended): find_visual_row returns the last row that starts at or
\* before o; it is the unique row i with start <= o and (o < end, or o = end
\* and i is the last row or the byte at o is a newline).  An offset on the
\* boundary of two adjoining rows is given to the later row.
C3_HoldsAmended(i) ==
    /\ rows[i][1] <= cursor
    /\ \/ cursor < rows[i][2]
       \/ /\ cursor = rows[i][2]
          /\ i = Len(rows) \/ cursor \in NewlineBytes

C3_RowContainmentAmended ==
    wpc = "found" =>
        /\ row_idx + 1 \in 1..Len(rows)
        /\ C3_HoldsAmended(row_idx + 1)
        /\ \A j \in 1..Len(rows) : C3_HoldsAmended(j) => j = row_idx + 1
        /\ \A j \in 1..Len(rows) : rows[j][1] <= cursor => j <= row_idx + 1
        /\ \A j \in 1..(Len(rows) - 1) :
              (rows[j][2] = cursor /\ rows[j + 1][1] = cursor)
                  => row_idx + 1 = j + 1

\* The cursor sits on a newline that ends a row which is not the last: the
\* row found is the one the newline ends.
C3_Witness ==
    /\ wpc = "found"
    /\ cursor \in NewlineBytes
    /\ row_idx + 1 < Len(rows)
    /\ rows[row_idx + 1][2] = cursor
    /\ rows[row_idx + 1][1] < cursor

\* C4: for line < number of lines and col <= number of characters of the
\* line, byte_offset_to_cursor(cursor_to_byte_offset((line, col))) is
\* (line, col).
ValidCursor(c) == c[1] < Len(lines) /\ c[2] <= Len(lines[c[1] + 1])

C4_RoundTrip ==
    (cpc = "cursor" /\ ValidCursor(cur_in)) => cur_out = cur_in

\* A round trip on the second line, past a multi-byte character, where the
\* column and the byte index differ.
C4_Witness ==
    /\ cpc = "cursor"
    /\ ValidCursor(cur_in)
    /\ cur_in[1] >= 1
    /\ cur_in[2] >= 1
    /\ len_utf8(lines[cur_in[1] + 1][cur_in[2]]) > 1
    /\ cur_out = cur_in

\* C5: after update_offset(visible_height) with visible_height > 0,
\* viewport_offset <= selected < viewport_offset + visible_height.
C5_ViewportContainment ==
    (last.op = "update_offset" /\ last.vh > 0)
        => /\ viewport_offset <= selected
           /\ selected < viewport_offset + last.vh

\* update_offset moved the window down: the selection is its last row.
C5_Witness ==
    /\ last.op = "update_offset"
    /\ last.vh > 1
    /\ viewport_offset > last.prev_offset
    /\ selected = viewport_offset + last.vh - 1

\* C6: for track_h >= 1, 0 < visible_rows <= total_rows and scroll in
\* [0, max_scroll]: 1 <= thumb_h <= track_h and thumb_top + thumb_h <= track_h.
C6_Domain ==
    /\ tpc = "done"
    /\ track_h >= 1
    /\ 0 < visible_rows /\ visible_rows <= total_rows
    /\ scroll <= thumb[3]

C7_DirectionalAnchoring ==
    last.op = "update_offset" =>
        LET vh  == IF last.vh < 1 THEN 1 ELSE last.vh
            off == last.prev_offset
        IN  /\ selected < off => viewport_offset = selected
            /\ selected >= off + vh => viewport_offset = selected - (vh - 1)
            /\ (selected >= off /\ selected < off + vh) => viewport_offset = off
            /\ (last.vh = 5 /\ off = 0 /\ selected = 12) => viewport_offset = 8

C7_Witness ==
    /\ last.op = "update_offset"
    /\ last.vh = 5
    /\ last.prev_offset = 0
    /\ selected = 12
    /\ viewport_offset = 8

C9_HelloWorld ==
    (Returned /\ text = HelloWorld /\ content_width = 5)
        => rows = << <<0, 5>>, <<6, 11>> >>

\* C9 (amended): "hello world" at width 5 gives the three rows (0,5), (5,6),
\* (6,11): the space is a row of its own and no byte is dropped.
C9_HelloWorldThreeRows ==
    (Returned /\ text = HelloWorld /\ content_width = 5)
        => rows = << <<0, 5>>, <<5, 6>>, <<6, 11>> >>

C9_Witness ==
    /\ wpc = "done"
    /\ text = HelloWorld
    /\ content_width = 5
    /\ Len(rows) = 3

\* C10: every newline ends the current row at its offset, the next row
\* starts one byte after it, the bytes that lie in no row are exactly the
\* newline bytes, and "ab\ncd" at width 10 gives (0,2), (3,5).
C10_NewlinesExcluded ==
    Returned =>
        /\ \A b \in NewlineBytes :
              \E i \in 1..(Len(rows) - 1) :
                  rows[i][2] = b /\ rows[i + 1][1] = b + 1
        /\ \A b \in 0..(TextLen - 1) :
              (b \in NewlineBytes) <=> (\A i \in 1..Len(rows) : b \notin RowBytes(i))
        /\ (text = AbNlCd /\ content_width = 10)
              => rows = << <<0, 2>>, <<3, 5>> >>

C10_Witness ==
    /\ wpc = "done"
    /\ text = AbNlCd
    /\ content_width = 10
    /\ rows = << <<0, 2>>, <<3, 5>> >>

\* C11: for every input of compute_thumb the result has thumb_h >= 1,
\* thumb_top + thumb_h <= track_h and max_scroll = total_rows - visible_rows
\* clamped at 0.
C11_ThumbInvariants ==
    tpc = "done" =>
        /\ thumb[1] >= 1
        /\ thumb[2] + thumb[1] <= track_h
        /\ thumb[3] = saturating_sub(total_rows, visible_rows)

\* C12: for track_h >= 1, 0 < visible_rows <= total_rows and scroll in
\* [0, max_scroll], mapping the thumb top back to a scroll offset s1 and
\* computing the thumb at s1 gives the same thumb top, and mapping that thumb
\* top back gives s1 again.
C12_RoundTripIdempotent ==
    (/\ tpc = "redrawn"
     /\ track_h >= 1
     /\ 0 < visible_rows /\ visible_rows <= total_rows
     /\ scroll <= thumb[3])
        => /\ thumb1[2] = thumb[2]
           /\ map_thumb_to_scroll_u32(thumb1[2],
                                      saturating_sub(track_h, thumb1[1]),
                                      thumb1[3]) = scroll1

\* C13: for every line list and every (row, col), also a row past the last
\* line and a col past the end of the line, cursor_to_byte_offset returns an
\* offset of at most the length of the lines joined by newlines; and for
\* every offset, also one past the end, byte_offset_to_cursor returns a
\* position inside the buffer, the end of the last line for an offset past
\* the end.
C13_OffsetsInsideBuffer ==
    /\ cpc \in {"offset", "cursor"} => offset <= str_len(joined(lines))
    /\ (cpc \in {"cursor", "located"} /\ lines # <<>>) =>
          /\ ValidCursor(cur_out)
          /\ offset > str_len(joined(lines)) =>
                cur_out = <<Len(lines) - 1, Len(lines[Len(lines)])>>

\* C14: after a ListState selection operation called with len > 0,
\* selected < len, whatever selected was before and whatever len the earlier
\* calls were given; with len = 0 the operations that take len leave
\* selected at 0.
C14_SelectionInRange ==
    /\ (last.op \in {"clamp_selection", "set_selected", "select_next",
                     "select_prev", "jump_bottom", "scroll_lines",
                     "page_up", "page_down"})
          => IF last.len > 0 THEN selected < last.len ELSE selected = 0
    /\ last.op = "jump_top" => selected = 0

\* C15: once every InlineDialogGuard has been dropped, in whatever order,
\* INLINE_DIALOG_MODE is false and compute_centered sizes the dialog from
\* the caller's options, not forced to the parent's width.
C15_OverrideEndsWithGuards ==
    /\ DOMAIN guards = {} => inline_mode = FALSE
    /\ (dialog.called /\ dialog.alive = 0) =>
          dialog.area = calculate_dialog_area_clamped(
                            dialog.parent_x, dialog.parent_w, dialog.width_q,
                            0, dialog.max_width)

\* C16: a batch's messages are enqueued in the batch's order, update gets
\* the messages in the order they were enqueued, each once, follow-up
\* messages go behind every pending message, and drain_pending returns only
\* with an empty queue.
C16_Fifo ==
    ppc # "off" =>
        /\ applied \o pending = produced
        /\ \A i \in 1..Len(produced) : produced[i] = i
        /\ ppc \in {"draw", "poll", "done", "err"} => pending = <<>>

C16_Witness ==
    /\ ppc = "draw"
    /\ init_msgs = {1, 2, 3}
    /\ applied = <<1, 2, 3, 4>>

\* C17: init is called once, before the event loop, never again; at every
\* view call the messages of the init command and of their follow-up
\* commands have all been passed to update.
C17_InitBeforeLoop ==
    /\ init_calls <= 1
    /\ ppc \in {"drain", "draw", "poll", "done"} => init_calls = 1
    /\ view_calls >= 1 =>
          /\ init_calls = 1
          /\ init_msgs \subseteq Range(applied)

C17_Witness ==
    /\ view_calls = 2
    /\ init_calls = 1
    /\ init_msgs = {1, 2}
    /\ applied = <<1, 2, 3>>

\* C18: the loop exits on a key exactly when the key is Esc and
\* exit_keys.esc is set, or 'q' without modifiers and exit_keys.q is set, or
\* 'c' with Control and exit_keys.ctrl_c is set; the default ExitKeys has
\* all three set.
C18_ExitKeys ==
    /\ key # NoKey =>
          ((ppc = "done") <=>
              \/ key.code = "Esc" /\ exit_keys.esc
              \/ key.code = "q" /\ key.modifiers = {} /\ exit_keys.q
              \/ key.code = "c" /\ "CONTROL" \in key.modifiers
                    /\ exit_keys.ctrl_c)
    /\ ExitKeysDefault.esc /\ ExitKeysDefault.q /\ ExitKeysDefault.ctrl_c

C18_Witness ==
    /\ ppc = "done"
    /\ key = [code |-> "c", modifiers |-> {"CONTROL"}]
    /\ exit_keys = ExitKeysDefault

\* The index the claim gives for the pointer cell in rectangle (x, y, w, h).
HitExpected(x, y, w, h) ==
    IF \/ hit_total = 0
       \/ ~(/\ x <= mouse[1] /\ mouse[1] < x + w
            /\ y <= mouse[2] /\ mouse[2] < y + h)
       \/ h = 0
    THEN None
    ELSE Some(Min(calculate_viewport_offset_internal(selected, h,
                                                     viewport_offset)
                      + (mouse[2] - y),
                  hit_total - 1))

\* C19: index_at_content returns None when total = 0, when the cell is
\* outside the rectangle or the rectangle has no height; otherwise Some of
\* the anchored offset plus the row inside the rectangle, limited to
\* total - 1, so below total; index_at does the same on the rectangle
\* shrunk by one cell on every side.
C19_HitTest ==
    /\ hpc = "content" =>
          hit = HitExpected(area.x, area.y, area.width, area.height)
    /\ hpc = "bordered" =>
          hit = HitExpected(area.x + 1, area.y + 1,
                            Max(area.width - 2, 0), Max(area.height - 2, 0))
    /\ (hpc \in {"content", "bordered"} /\ hit # None) => hit[1] < hit_total

C19_Witness ==
    /\ hpc = "content"
    /\ hit = Some(hit_total - 1)
    /\ calculate_viewport_offset_internal(selected, area.height,
                                          viewport_offset)
          + (mouse[2] - area.y) > hit_total - 1

\* The state wrapped_row_ranges is in after the next iteration of its loop.
NextIteration ==
    wrap_step(text, content_width,
              [rows |-> rows, start |-> start, width_cols |-> width_cols,
               last_break |-> last_break, idx |-> idx])

\* One past the most recent break candidate (a whitespace character, '@' or
\* '/') among the characters before idx; 0 when there is none.
CandidateEnd ==
    LET ks == {k \in 1..Len(text) :
                 /\ byte_of(text, k) < idx
                 /\ (is_whitespace(text[k]) \/ text[k] = AT \/ text[k] = SLASH)}
    IN  IF ks = {} THEN 0
        ELSE LET k == CHOOSE j \in ks : \A i \in ks : i <= j
             IN  byte_of(text, k) + len_utf8(text[k])

BreakPos == IF CandidateEnd > start THEN CandidateEnd ELSE idx

\* The current row has content and the next character does not fit in what
\* is left of the width.
RowOverflows ==
    /\ wpc = "loop" /\ idx < TextLen
    /\ char_at(text, idx) # NL
    /\ idx > start
    /\ display_width(slice(text, start, idx))
          + unicode_width(char_at(text, idx)) > Max(content_width, 1)

\* C20: when the next character would exceed the width and the row has
\* content, the loop ends the row just after the most recent break candidate
\* if that lies strictly after the row's start, else immediately before the
\* overflowing character, and the next row starts at that position.
C20_BreakAtCandidate ==
    RowOverflows =>
        /\ NextIteration.rows = Append(rows, <<start, BreakPos>>)
        /\ NextIteration.start = BreakPos

\* The same rule with the overflow as the loop counts it (width_cols, each
\* character at least one column): this one the loop keeps.
BreakAtCandidateAsCounted ==
    (/\ wpc = "loop" /\ idx < TextLen
     /\ char_at(text, idx) # NL
     /\ width_cols > 0
     /\ width_cols + Max(unicode_width(char_at(text, idx)), 1)
           > Max(content_width, 1))
        => /\ NextIteration.rows = Append(rows, <<start, BreakPos>>)
           /\ NextIteration.start = BreakPos

\* C21: desired_from_click returns a thumb top of at most height - thumb_h
\* (0 for a thumb taller than the track); for thumb_pos <= max_thumb_top
\* both map_thumb_to_scroll functions return a scroll of at most max_scroll,
\* 0 for thumb_pos = 0 and max_scroll for thumb_pos = max_thumb_top > 0;
\* start_drag returns a grab offset below thumb_h when thumb_h >= 1.
C21_StartDrag ==
    (drag_call.fn = "start_drag" /\ drag_call.args[3] >= 1)
        => drag_call.res[2] < drag_call.args[3]

C21_Desired ==
    drag_call.fn = "desired_from_click" =>
        LET height == drag_call.args[3]
            th     == drag_call.args[5]
        IN  drag_call.res[1] <= (IF th > height THEN 0 ELSE height - th)

C21_MapU16 ==
    (drag_call.fn = "map_thumb_to_scroll_u16"
        /\ drag_call.args[1] <= drag_call.args[2])
        => /\ drag_call.res <= drag_call.args[3]
           /\ drag_call.args[1] = 0 => drag_call.res = 0
           /\ (drag_call.args[1] = drag_call.args[2] /\ drag_call.args[2] > 0)
                 => drag_call.res = drag_call.args[3]

C21_MapU32 ==
    (drag_call.fn = "map_thumb_to_scroll_u32"
        /\ drag_call.args[1] <= drag_call.args[2])
        => /\ drag_call.res # Panic
           /\ u32_le(drag_call.res, drag_call.args[3])
           /\ drag_call.args[1] = 0 => drag_call.res = u32(0, 0)
           /\ (drag_call.args[1] = drag_call.args[2] /\ drag_call.args[2] > 0)
                 => drag_call.res = drag_call.args[3]

C21_DragInRange == C21_StartDrag /\ C21_Desired /\ C21_MapU16 /\ C21_MapU32

\* The row of the text at width w that holds byte offset c, and its start.
RowStartOf(c, w) ==
    LET ranges == wrapped_row_ranges(ti_text, w)
    IN  ranges[find_visual_row(ranges, c) + 1][1]

\* C22: the column returned by cursor_visual_position (and visual_column) is
\* the sum of the display widths, 0, 1 or 2 columns each, of the characters
\* between the row's start and the cursor.
C22_ColumnIsDisplayWidth ==
    ti_call.op = "cursor_visual_position" =>
        LET c == ti_cursor(ti_text, ti_cur)
        IN  /\ ti_call.pos[2]
                  = display_width(slice(ti_text, RowStartOf(c, ti_call.width), c))
            /\ visual_column(slice(ti_text, RowStartOf(c, ti_call.width), c))
                  = display_width(slice(ti_text, RowStartOf(c, ti_call.width), c))

\* C26: when cursor_move_visual_vertical returns true the cursor's visual
\* row at the same width is one less (up) or one more (down) than before;
\* when it returns false the cursor's byte offset is unchanged.
C26_MovesOneRow ==
    ti_call.op = "cursor_move_visual_vertical" =>
        IF ti_call.ret
        THEN cursor_visual_position(ti_text, ti_cur, ti_call.width)[1]
                = IF ti_call.up THEN ti_call.pos[1] - 1 ELSE ti_call.pos[1] + 1
        ELSE ti_cursor(ti_text, ti_cur) = ti_call.before

\* C27: for width >= 1, cursor_visual_line_end leaves the cursor on the
\* visual row it was on, at that row's end, and a second call with the same
\* width does not move it.
C27_LineEndIdempotent ==
    (ti_call.op = "cursor_visual_line_end" /\ ti_call.width >= 1) =>
        LET ranges == wrapped_row_ranges(ti_text, ti_call.width)
            c      == ti_cursor(ti_text, ti_cur)
        IN  /\ cursor_visual_position(ti_text, ti_cur, ti_call.width)[1]
                  = ti_call.pos[1]
            /\ c = ranges[ti_call.pos[1] + 1][2]
            /\ cursor_visual_line_end(ti_text, ti_cur, ti_call.width) = ti_cur

\* The loop of wrapped_row_ranges runs to its end: an iteration that can be
\* taken is taken, and so is the return.
SpecWrapFair == SpecWrap /\ WF_vars(WrapLoop) /\ WF_vars(WrapReturn)

\* An iteration of the loop that consumes no character: the overflow branch.
OverflowStep == WrapLoop /\ idx' = idx

\* An overflow iteration pushes a row that holds at least one character, and
\* the iteration after it consumes a character.
OverflowMakesProgress ==
    OverflowStep =>
        /\ Len(rows') = Len(rows) + 1
        /\ rows'[Len(rows')][1] < rows'[Len(rows')][2]
        /\ idx' < str_len(text)
        /\ wrap_step(text, content_width,
                     [rows |-> rows', start |-> start',
                      width_cols |-> width_cols',
                      last_break |-> last_break', idx |-> idx']).idx > idx'

\* The rows returned for width 0 are the rows of width 1.
WidthZeroIsWidthOne ==
    (Returned /\ content_width = 0) => rows = wrapped_row_ranges(text, 1)

\* C23: wrapped_row_ranges terminates for every text and every width,
\* width 0 included; width 0 gives the rows of width 1; the scan never takes
\* two consecutive steps without consuming a character; and every row ended
\* by a width overflow holds at least one character.
C23_Terminates ==
    /\ <>Returned
    /\ []WidthZeroIsWidthOne
    /\ [][OverflowMakesProgress]_vars

\* wrapped_row_ranges has returned for width 0 with rows ended by overflow,
\* among them one that a single wide character fills beyond the width.
C23_Witness ==
    /\ Returned
    /\ content_width = 0
    /\ \A k \in 1..Len(text) : text[k] # NL
    /\ Len(rows) >= 3
    /\ \E k \in 1..Len(text) : unicode_width(text[k]) = 2

\* C24: while at least one InlineDialogGuard is alive INLINE_DIALOG_MODE is
\* true, and every compute_centered call made then sizes the dialog with
\* width_pct 1.0 and max_width = parent.width, whatever the order in which
\* overlapping guards are dropped.
C24_OverrideWhileGuarded ==
    /\ DOMAIN guards # {} => inline_mode = TRUE
    /\ (dialog.called /\ dialog.alive >= 1) =>
          dialog.area = calculate_dialog_area_clamped(
                            dialog.parent_x, dialog.parent_w, 4,
                            0, dialog.parent_w)

\* C25: every index in FuzzyDropdown's filtered list is a valid index into
\* the current items, after any sequence of new, update_filter, update_items
\* and selection calls, update_items with a shorter list included.
C25_FilteredIndicesValid ==
    \A k \in 1..Len(dd_filtered) : dd_filtered[k] < dd_items

\* C28: for a WizardFlow with at least one step, current_step_idx stays in
\* 0..step_count-1; advance on the last step and go_back on the first return
\* Err and leave the index unchanged; a successful advance or go_back moves
\* the index by exactly one; neither changes the item.
C28_WizardNavigation ==
    wz_steps >= 1 =>
        /\ 0 <= wz_idx /\ wz_idx < wz_steps
        /\ wz_last.op = "advance" =>
              IF wz_last.before = wz_steps - 1
              THEN wz_last.ret = "err" /\ wz_idx = wz_last.before
              ELSE wz_last.ret = "ok" /\ wz_idx = wz_last.before + 1
        /\ wz_last.op = "go_back" =>
              IF wz_last.before = 0
              THEN wz_last.ret = "err" /\ wz_idx = wz_last.before
              ELSE wz_last.ret = "ok" /\ wz_idx = wz_last.before - 1
        /\ wz_last.op \in {"advance", "go_back"} => wz_item = wz_last.item

\* advance was refused on the last of several steps, the item having been
\* changed before.
C28_Witness ==
    /\ wz_steps >= 2
    /\ wz_last.op = "advance"
    /\ wz_last.ret = "err"
    /\ wz_idx = wz_steps - 1
    /\ wz_item = 1

\* C29: after any sequence of open, open_loading, close and picker messages
\* every entry of filtered_indices is below items.len(); when
\* filtered_indices is non-empty list.selected is below its length; and
\* UpdateSearch and ClearSearch leave list.selected and list.viewport_offset
\* at 0.
C29_PickerIndicesValid ==
    /\ \A k \in 1..Len(picker.filtered_indices) :
          picker.filtered_indices[k] < picker.items
    /\ picker.filtered_indices # <<>> =>
          picker.selected < Len(picker.filtered_indices)
    /\ pk_last.op \in {"UpdateSearch", "ClearSearch"} =>
          picker.selected = 0 /\ picker.viewport_offset = 0

\* UpdateSearch with a non-blank query on a scrolled list: some items are
\* filtered out, the rest is ordered by score, not by index.
C29_Witness ==
    /\ pk_last.op = "UpdateSearch"
    /\ pk_last.selected > 0 /\ pk_last.viewport_offset > 0
    /\ ~trim_is_empty(picker.search_input)
    /\ Len(picker.filtered_indices) = 2
    /\ picker.items = 3
    /\ picker.filtered_indices[1] > picker.filtered_indices[2]

\* The lines the viewport shows: those at positions start .. start + height
\* of history_lines followed by tail_lines, one per screen row from area.y.
ExpectedLines ==
    LET total == rl_in.history + rl_in.tail
        n     == IF rl_in.start >= total THEN 0
                 ELSE Min(rl_in.height, total - rl_in.start)
    IN  [k \in 1..n |-> <<rl_in.y + (k - 1), rl_in.start + k>>]

\* C30: render_lines_slice accepts every start offset without failing; it
\* draws exactly the lines at positions start .. start + area.height of
\* history_lines followed by tail_lines, in order, at most area.height of
\* them, and nothing when start is at or beyond the number of lines.
C30_DrawsTheSlice ==
    rl_pc = "done" => ~rl_out.panic /\ rl_out.drawn = ExpectedLines

\* The same for start offsets that do not pass the last line.
SliceDrawnUpToTheEnd ==
    (rl_pc = "done" /\ rl_in.start <= rl_in.history + rl_in.tail)
        => ~rl_out.panic /\ rl_out.drawn = ExpectedLines

=============================================================================
